---- MODULE Spec2Model ----
(***************************************************************************)
(* Seishiro action dispatcher: RegistryBuilder, PolicyBuilder,             *)
(* MessageBuilder and Actions, modelled from the TypeScript sources.       *)
(*                                                                         *)
(* JavaScript strings are sequences of one-character strings, so that      *)
(* formatKey, parseVersion, extractLanguage and Message.error are computed *)
(* character by character.  Every other JavaScript value is a record with  *)
(* a tag field t.                                                          *)
(***************************************************************************)
EXTENDS Integers, Sequences, FiniteSets, TLC

VARIABLES
  registry_logic,  \* RegistryBuilder.registry_logic: the Map of the entries
  writes,          \* history: the Map writes made so far, in order
  reg_ret,         \* the last registry call and what it returned
  policy,          \* the PolicyBuilder instance
  pol_ret,         \* the last policy call, its outcome and the policy before it
  message,         \* the MessageBuilder instance
  msg_ret,         \* the last call on the catalog or on ResponseBuilder, with
                   \* its arguments and what it returned
  cache_book,      \* Actions.cache_book
  book_log,        \* history: what each BookRegistry() call returned, and how
                   \* many registry writes and API denials preceded the call
  builds,          \* history: how many manifests were built
  calls            \* the dispatches, by slot

vars == <<registry_logic, writes, reg_ret, policy, pol_ret, message, msg_ret,
          cache_book, book_log, builds, calls>>

registryVars == <<registry_logic, writes, reg_ret>>
policyVars == <<policy, pol_ret>>
messageVars == <<message, msg_ret>>
bookVars == <<cache_book, book_log, builds>>

(***************************************************************************)
(* JavaScript values                                                       *)
(***************************************************************************)
UNDEF == [t |-> "undefined"]
NULL == [t |-> "null"]
Str(s) == [t |-> "string", v |-> s]
Num(n) == [t |-> "number", v |-> n]
Bool(b) == [t |-> "boolean", v |-> b]
Fn(id) == [t |-> "function", id |-> id]
Arr(s) == [t |-> "array", v |-> s]
\* An object with named properties: e is the sequence of its <<name, value>>
\* pairs in insertion order.
Obj(e) == [t |-> "object", e |-> e]
\* obj.name, undefined when obj is no object or has no such property.
Prop(x, name) ==
  IF x.t = "object" /\ "e" \in DOMAIN x /\ \E i \in DOMAIN x.e : x.e[i][1] = name
  THEN x.e[CHOOSE i \in DOMAIN x.e : x.e[i][1] = name][2]
  ELSE UNDEF

IsString(x) == x.t = "string"
IsFunction(x) == x.t = "function"
IsArray(x) == x.t = "array"

\* ToBoolean: undefined, null, "", 0 and false are falsy, all else truthy.
Truthy(x) ==
  CASE x.t = "undefined" -> FALSE
    [] x.t = "null" -> FALSE
    [] x.t = "string" -> x.v # <<>>
    [] x.t = "number" -> x.v # 0
    [] x.t = "boolean" -> x.v
    [] OTHER -> TRUE

\* a[i] of a JavaScript array (0-based), undefined past its end.
ArrGet(a, i) == IF i + 1 <= Len(a.v) THEN a.v[i + 1] ELSE UNDEF

(***************************************************************************)
(* Characters                                                              *)
(***************************************************************************)
LowerChars == <<"a","b","c","d","e","f","g","h","i","j","k","l","m",
                "n","o","p","q","r","s","t","u","v","w","x","y","z">>
UpperChars == <<"A","B","C","D","E","F","G","H","I","J","K","L","M",
                "N","O","P","Q","R","S","T","U","V","W","X","Y","Z">>
DigitChars == <<"0","1","2","3","4","5","6","7","8","9">>

Range(s) == {s[i] : i \in DOMAIN s}

IsSpace(c) == c \in {" "}

RECURSIVE TrimLeft(_)
TrimLeft(s) ==
  IF s # <<>> /\ IsSpace(Head(s)) THEN TrimLeft(Tail(s)) ELSE s

RECURSIVE TrimRight(_)
TrimRight(s) ==
  IF s # <<>> /\ IsSpace(s[Len(s)])
  THEN TrimRight(SubSeq(s, 1, Len(s) - 1))
  ELSE s

\* String.prototype.trim
Trim(s) == TrimRight(TrimLeft(s))

ToLowerChar(c) ==
  IF c \in Range(UpperChars)
  THEN LowerChars[CHOOSE i \in DOMAIN UpperChars : UpperChars[i] = c]
  ELSE c

\* String.prototype.toLowerCase
ToLowerCase(s) == [i \in DOMAIN s |-> ToLowerChar(s[i])]

\* Decimal digits of a natural number, as String(n) prints it.
RECURSIVE NatToString(_)
NatToString(n) ==
  IF n < 10 THEN <<DigitChars[n + 1]>>
  ELSE NatToString(n \div 10) \o <<DigitChars[(n % 10) + 1]>>

\* String(x || ""): the text of x when x is truthy, else "".
StringOrEmpty(x) ==
  IF ~Truthy(x) THEN <<>>
  ELSE IF x.t = "string" THEN x.v
  ELSE IF x.t = "number" THEN NatToString(x.v)
  ELSE <<"[","o","b","j","e","c","t","]">>

(***************************************************************************)
(* formatKey                                                               *)
(***************************************************************************)
\* The characters /[^a-zA-Z0-9-.:]/g keeps.
KeyCharAllowed(c) ==
  c \in Range(LowerChars) \cup Range(UpperChars) \cup Range(DigitChars)
        \cup {"-", ".", ":"}

formatKeyNoLower(strkey) ==
  SelectSeq(Trim(StringOrEmpty(strkey)), KeyCharAllowed)

formatKey(strkey) ==
  ToLowerCase(SelectSeq(Trim(StringOrEmpty(strkey)), KeyCharAllowed))

(***************************************************************************)
(* RegistryBuilder                                                         *)
(***************************************************************************)
MaxWrites == 2

\* Map.prototype.set / get / has on the entries of a Map.
MapSet(m, k, v) == [x \in (DOMAIN m) \cup {k} |-> IF x = k THEN v ELSE m[x]]
MapHas(m, k) == k \in DOMAIN m
MapGet(m, k) == IF k \in DOMAIN m THEN m[k] ELSE UNDEF

EmptyMap == [t |-> "Map", m |-> << >>]

\* A stored pair [middleware, function_regis].
Pair(mw, fn) == Arr(<<mw, fn>>)

\* The outcome of a registry operation on builder state st = [map, log]:
\* log is the history of the Map writes performed, in order.
Ok(st) == [map |-> st.map, log |-> st.log, threw |-> FALSE]
Threw(st) == [map |-> st.map, log |-> st.log, threw |-> TRUE]
Written(st, key, keyStr, function_regis, middleware, val) ==
  [map |-> [st.map EXCEPT !.m = MapSet(st.map.m, keyStr, val)],
   log |-> Append(st.log, [key |-> key, fn |-> function_regis, mw |-> middleware]),
   threw |-> FALSE]

\* set() that never replaces a key already stored.
RegistrySetOpKeepFirst(st, key, function_regis, middleware) ==
  LET keyStr == formatKey(key) IN
  IF ~IsFunction(function_regis) THEN Threw(st)
  ELSE IF ~IsString(key) THEN Threw(st)
  ELSE IF MapHas(st.map.m, keyStr)
  THEN [map |-> st.map,
        log |-> Append(st.log, [key |-> key, fn |-> function_regis, mw |-> middleware]),
        threw |-> FALSE]
  ELSE IF Truthy(middleware) /\ IsFunction(middleware)
  THEN Written(st, key, keyStr, function_regis, middleware,
               Pair(middleware, function_regis))
  ELSE Written(st, key, keyStr, function_regis, middleware, function_regis)

RegistrySetOp(st, key, function_regis, middleware) ==
  LET keyStr == formatKey(key) IN
  IF ~IsFunction(function_regis) THEN Threw(st)
  ELSE IF ~IsString(key) THEN Threw(st)
  ELSE IF Truthy(middleware) /\ IsFunction(middleware)
  THEN Written(st, key, keyStr, function_regis, middleware,
               Pair(middleware, function_regis))
  ELSE Written(st, key, keyStr, function_regis, middleware, function_regis)

\* get() with the key looked up as given, not normalized.
RegistryGetOpRaw(map, key) ==
  LET v == MapGet(map.m, StringOrEmpty(key)) IN
  IF Truthy(v) THEN v ELSE UNDEF

RegistryGetOp(map, key) ==
  LET keyStr == formatKey(key)
      v == MapGet(map.m, keyStr)
  IN IF Truthy(v) THEN v ELSE UNDEF

\* The loop of use() over Object.entries(input) of a plain object, from entry i
\* on; a throw of set() leaves the loop and the entries after it unvisited.
RECURSIVE UseEntries(_, _, _)
UseEntries(st, entries, i) ==
  IF i > Len(entries) THEN Ok(st)
  ELSE LET key == Str(entries[i][1])
           val == entries[i][2]
           r == IF IsArray(val)
                THEN RegistrySetOp(st, key, ArrGet(val, 1), ArrGet(val, 0))
                ELSE IF IsFunction(val)
                THEN RegistrySetOp(st, key, val, UNDEF)
                ELSE Ok(st)
       IN IF r.threw THEN r ELSE UseEntries(r, entries, i + 1)

\* The loop of use() over the entries of another builder's Map: each entry is
\* copied with Map.set, key and value as stored.
RECURSIVE UseMapEntries(_, _, _)
UseMapEntries(st, other, keys) ==
  IF keys = {} THEN Ok(st)
  ELSE LET k == CHOOSE x \in keys : TRUE
           val == other.m[k]
           r == [map |-> [st.map EXCEPT !.m = MapSet(st.map.m, k, val)],
                 log |-> Append(st.log,
                           IF IsArray(val)
                           THEN [key |-> Str(k), fn |-> ArrGet(val, 1), mw |-> ArrGet(val, 0)]
                           ELSE [key |-> Str(k), fn |-> val, mw |-> UNDEF]),
                 threw |-> FALSE]
       IN UseMapEntries(r, other, keys \ {k})

\* use(input): input is a RegistryBuilder [t |-> "RegistryBuilder", map], a Map,
\* a plain object [t |-> "object", entries] or anything else.
RegistryUseOp(st, input) ==
  IF input.t = "RegistryBuilder"
  THEN UseMapEntries(st, input.map, DOMAIN input.map.m)
  ELSE IF input.t = "object" THEN UseEntries(st, input.entries, 1)
  ELSE IF input.t = "Map" THEN Ok(st)
  ELSE Threw(st)

(***************************************************************************)
(* String operations                                                       *)
(***************************************************************************)
\* String.prototype.split(sep) for a one-character separator: the pieces
\* between the separators, in order; a string without one is its only piece.
RECURSIVE SplitFrom(_, _, _)
SplitFrom(s, sep, cur) ==
  IF s = <<>> THEN <<cur>>
  ELSE IF Head(s) = sep THEN <<cur>> \o SplitFrom(Tail(s), sep, <<>>)
  ELSE SplitFrom(Tail(s), sep, Append(cur, Head(s)))
Split(s, sep) == SplitFrom(s, sep, <<>>)

\* Array.prototype.join(sep) of an array of strings.
RECURSIVE Join(_, _)
Join(parts, sep) ==
  IF parts = <<>> THEN <<>>
  ELSE IF Len(parts) = 1 THEN parts[1]
  ELSE parts[1] \o sep \o Join(Tail(parts), sep)

IsPrefix(p, s) == Len(p) <= Len(s) /\ SubSeq(s, 1, Len(p)) = p

\* String.prototype.replace(/pat/g, rep) for a pattern without special
\* characters: every occurrence, left to right, without overlap.
RECURSIVE ReplaceAll(_, _, _)
ReplaceAll(s, pat, rep) ==
  IF s = <<>> THEN <<>>
  ELSE IF pat # <<>> /\ IsPrefix(pat, s)
  THEN rep \o ReplaceAll(SubSeq(s, Len(pat) + 1, Len(s)), pat, rep)
  ELSE <<Head(s)>> \o ReplaceAll(Tail(s), pat, rep)

(***************************************************************************)
(* extractLanguage                                                         *)
(***************************************************************************)
\* The items of the header, each cut at its first ';' and its first '-' and
\* trimmed.
LanguageItems(lang) ==
  LET items == Split(Trim(StringOrEmpty(lang)), ",") IN
  [i \in DOMAIN items |-> Trim(Split(Split(items[i], ";")[1], "-")[1])]

\* filter((value, index, self) => self.indexOf(value) === index)
Unique(s) ==
  LET keep == {i \in DOMAIN s : \A j \in 1..(i - 1) : s[j] # s[i]}
      F[i \in 0..Len(s)] ==
        IF i = 0 THEN <<>>
        ELSE IF i \in keep THEN Append(F[i - 1], s[i]) ELSE F[i - 1]
  IN F[Len(s)]

extractLanguage(lang) == Unique(LanguageItems(lang))[1]

(***************************************************************************)
(* PolicyBuilder                                                           *)
(***************************************************************************)
NAN == [t |-> "NaN"]

IsDigits(s) == s # <<>> /\ \A i \in DOMAIN s : s[i] \in Range(DigitChars)

DigitValue(c) == (CHOOSE i \in DOMAIN DigitChars : DigitChars[i] = c) - 1

RECURSIVE DigitsValue(_)
DigitsValue(s) ==
  IF s = <<>> THEN 0
  ELSE 10 * DigitsValue(SubSeq(s, 1, Len(s) - 1)) + DigitValue(s[Len(s)])

\* Number(s) of a string over digits, letters, '-', '+' and blanks: blank is 0,
\* an optionally signed run of digits is its value, anything else is NaN.
\* (Exponents, hexadecimal and "Infinity" are outside the model's alphabet.)
ToNumber(s) ==
  LET u == Trim(s) IN
  IF u = <<>> THEN Num(0)
  ELSE IF IsDigits(u) THEN Num(DigitsValue(u))
  ELSE IF Head(u) = "-" /\ IsDigits(Tail(u)) THEN Num(0 - DigitsValue(Tail(u)))
  ELSE IF Head(u) = "+" /\ IsDigits(Tail(u)) THEN Num(DigitsValue(Tail(u)))
  ELSE NAN

parseVersion(v) ==
  LET parts == Split(v, ".") IN [i \in DOMAIN parts |-> ToNumber(parts[i])]

\* v[i] || 0 for an array of numbers (0-based i): NaN, 0 and undefined give 0.
SegmentOrZero(v, i) ==
  IF i + 1 <= Len(v) /\ v[i + 1].t = "number" THEN v[i + 1].v ELSE 0

Max(a, b) == IF a >= b THEN a ELSE b

RECURSIVE compareFrom(_, _, _)
compareFrom(v1, v2, i) ==
  IF i >= Max(Len(v1), Len(v2)) THEN 0
  ELSE LET n1 == SegmentOrZero(v1, i)
           n2 == SegmentOrZero(v2, i)
       IN IF n1 # n2 THEN (IF n1 > n2 THEN 1 ELSE -1)
          ELSE compareFrom(v1, v2, i + 1)

\* compare() over the common length only, the longer tuple winning a tie.
compareCommon(v1, v2) ==
  LET common == IF Len(v1) <= Len(v2) THEN Len(v1) ELSE Len(v2)
      c == compareFrom(SubSeq(v1, 1, common), SubSeq(v2, 1, common), 0)
  IN IF c # 0 THEN c
     ELSE IF Len(v1) = Len(v2) THEN 0
     ELSE IF Len(v1) > Len(v2) THEN 1 ELSE -1

\* compare() passing over every position where either segment is NaN.
RECURSIVE compareSkipNaNFrom(_, _, _)
compareSkipNaNFrom(v1, v2, i) ==
  IF i >= Max(Len(v1), Len(v2)) THEN 0
  ELSE LET n1 == SegmentOrZero(v1, i)
           n2 == SegmentOrZero(v2, i)
           nan == \/ (i + 1 <= Len(v1) /\ v1[i + 1] = NAN)
                  \/ (i + 1 <= Len(v2) /\ v2[i + 1] = NAN)
       IN IF ~nan /\ n1 # n2 THEN (IF n1 > n2 THEN 1 ELSE -1)
          ELSE compareSkipNaNFrom(v1, v2, i + 1)
compareSkipNaN(v1, v2) == compareSkipNaNFrom(v1, v2, 0)

compare(v1, v2) == compareFrom(v1, v2, 0)

\* new PolicyBuilder({...}) with valid arguments: the state the constructor
\* leaves, compiled_policy sharing the two deny-list arrays of the instance.
PolicyConstructor(passkey, version_now, version_min, version_forceupdate, skip_middleware_context) ==
  [passkey |-> passkey,
   version_now |-> version_now,
   version_min |-> version_min,
   parsed_min |-> parseVersion(version_min),
   parsed_now |-> parseVersion(version_now),
   version_forceupdate |-> version_forceupdate,
   noaction_api |-> <<>>,
   noaction_server |-> <<>>,
   skip_middleware_context |-> skip_middleware_context]

\* version_info(clientVersion) of policy p.
version_infoForceOnly(p, clientVersion) ==
  [info_upgrade |-> p.version_forceupdate,
   is_version_min |-> FALSE,
   is_version_now |-> FALSE]

version_info(p, clientVersion) ==
  LET vClient == parseVersion(clientVersion) IN
  [info_upgrade |-> p.version_forceupdate,
   is_version_min |-> compare(vClient, p.parsed_min) >= 0,
   is_version_now |-> compare(vClient, p.parsed_now) >= 0]

\* apply() returning the deny-lists as they were when the constructor compiled
\* the policy: a copy taken then, which later noaction() calls do not reach.
PolicyApplyCompiledOnce(p) ==
  [passkey |-> p.passkey,
   version_now |-> p.version_now,
   version_min |-> p.version_min,
   version_forceupdate |-> p.version_forceupdate,
   noaction_api |-> <<>>,
   noaction_server |-> <<>>,
   skip_middleware_context |-> p.skip_middleware_context]

\* apply(): compiled_policy, whose noaction_api and noaction_server are the
\* arrays noaction() pushes to, so it always shows their current contents.
PolicyApply(p) ==
  [passkey |-> p.passkey,
   version_now |-> p.version_now,
   version_min |-> p.version_min,
   version_forceupdate |-> p.version_forceupdate,
   noaction_api |-> p.noaction_api,
   noaction_server |-> p.noaction_server,
   skip_middleware_context |-> p.skip_middleware_context]

API_ACTION == <<"a", "p", "i", "-", "a", "c", "t", "i", "o", "n">>
SERVER_ACTION == <<"s", "e", "r", "v", "e", "r", "-", "a", "c", "t", "i", "o", "n">>
SYSTEM_ACTION == <<"s", "y", "s", "t", "e", "m", "-", "a", "c", "t", "i", "o", "n">>

\* Array.prototype.includes on an array of strings.
Includes(arr, x) == \E i \in DOMAIN arr : arr[i] = x

\* The second loop of noaction(): one push per protocol named.
RECURSIVE NoactionPush(_, _, _)
NoactionPush(p, type, action) ==
  IF action = <<>> THEN p
  ELSE LET q == IF Head(action) = API_ACTION
                THEN [p EXCEPT !.noaction_api = Append(@, type)]
                ELSE IF Head(action) = SERVER_ACTION
                THEN [p EXCEPT !.noaction_server = Append(@, type)]
                ELSE p
       IN NoactionPush(q, type, Tail(action))

\* The parameter default of noaction: an undefined type reads as "".
NoactionType(type) == IF type = UNDEF THEN Str(<<>>) ELSE type

\* noaction() pushing as it validates, protocol by protocol.
RECURSIVE PolicyNoactionOpEager(_, _, _)
PolicyNoactionOpEager(p, type, action) ==
  IF action = <<>> THEN [policy |-> p, threw |-> ~IsString(NoactionType(type))]
  ELSE IF Head(action) \notin {SERVER_ACTION, API_ACTION} \/ ~IsString(NoactionType(type))
  THEN [policy |-> p, threw |-> TRUE]
  ELSE PolicyNoactionOpEager(NoactionPush(p, NoactionType(type).v, <<Head(action)>>),
                             type, Tail(action))

\* noaction(type, action): [policy, threw].
PolicyNoactionOp(p, type, action) ==
  IF \E i \in DOMAIN action : action[i] \notin {SERVER_ACTION, API_ACTION}
  THEN [policy |-> p, threw |-> TRUE]
  ELSE IF ~IsString(NoactionType(type)) THEN [policy |-> p, threw |-> TRUE]
  ELSE [policy |-> NoactionPush(p, NoactionType(type).v, action), threw |-> FALSE]

(***************************************************************************)
(* MessageBuilder                                                          *)
(***************************************************************************)
\* message_logic is the sequence of <<language, messages>> in the order the
\* languages were inserted (the order of Object.keys); messages maps the
\* normalized keys of the language to their templates.
DefaultLanguage == <<"e", "n">>

LangIndex(logic, lang) == {i \in DOMAIN logic : logic[i][1] = lang}
HasLang(logic, lang) == LangIndex(logic, lang) # {}
MessagesOf(logic, lang) == logic[CHOOSE i \in LangIndex(logic, lang) : TRUE][2]

IsLowerLetter(c) == c \in Range(LowerChars)

\* new MessageBuilder(language)
MessageConstructor(language) ==
  LET l == SelectSeq(ToLowerCase(IF Truthy(language) THEN StringOrEmpty(language)
                                 ELSE <<"e", "n">>),
                     IsLowerLetter)
  IN [message_build_lang |-> SubSeq(l, 1, IF Len(l) < 2 THEN Len(l) ELSE 2),
      message_logic |-> <<>>]

\* message_logic[lang][keyStr] = value, the language created when missing.
LogicPut(logic, lang, keyStr, value) ==
  LET withLang == IF HasLang(logic, lang) THEN logic
                  ELSE Append(logic, <<lang, << >> >>)
  IN [i \in DOMAIN withLang |->
        IF withLang[i][1] = lang
        THEN <<lang, MapSet(withLang[i][2], keyStr, value)>>
        ELSE withLang[i]]

\* set(key, value): [mb, threw].
MessageSetOp(mb, key, value) ==
  LET keyStr == formatKey(key) IN
  IF ~IsString(value) THEN [mb |-> mb, threw |-> TRUE]
  ELSE IF ~IsString(key) THEN [mb |-> mb, threw |-> TRUE]
  ELSE [mb |-> [mb EXCEPT !.message_logic =
                  LogicPut(@, mb.message_build_lang, keyStr, Trim(value.v))],
        threw |-> FALSE]

\* Object.assign(this.message_logic[lang], messages) for every language of
\* another builder's logic.
RECURSIVE AssignMessages(_, _, _, _)
AssignMessages(logic, lang, messages, keys) ==
  IF keys = {} THEN (IF HasLang(logic, lang) THEN logic
                     ELSE Append(logic, <<lang, << >> >>))
  ELSE LET k == CHOOSE x \in keys : TRUE IN
       AssignMessages(LogicPut(logic, lang, k, messages[k]), lang, messages,
                      keys \ {k})

RECURSIVE MergeLogic(_, _, _)
MergeLogic(logic, other, i) ==
  IF i > Len(other) THEN logic
  ELSE MergeLogic(AssignMessages(logic, other[i][1], other[i][2],
                                 DOMAIN other[i][2]),
                  other, i + 1)

RECURSIVE MessageUseEntries(_, _, _)
MessageUseEntries(r, entries, i) ==
  IF i > Len(entries) \/ r.threw THEN r
  ELSE MessageUseEntries(MessageSetOp(r.mb, Str(entries[i][1]), entries[i][2]),
                         entries, i + 1)

\* use(input): input is a MessageBuilder [t |-> "MessageBuilder", mb], a plain
\* object [t |-> "object", entries] or anything else.
MessageUseOp(mb, input) ==
  IF input.t = "MessageBuilder"
  THEN [mb |-> [mb EXCEPT !.message_logic = MergeLogic(@, input.mb.message_logic, 1)],
        threw |-> FALSE]
  ELSE IF input.t = "object"
  THEN MessageUseEntries([mb |-> mb, threw |-> FALSE], input.entries, 1)
  ELSE [mb |-> mb, threw |-> TRUE]

\* get() reading the first language inserted where the one asked for is
\* missing, the default language never tried.
LangSupportNoDefault(logic, lang) ==
  IF HasLang(logic, lang) THEN Str(lang)
  ELSE IF logic # <<>> THEN Str(logic[1][1])
  ELSE UNDEF

\* The language get() reads: lang when the logic has it, else DefaultLanguage
\* when the logic has it, else the first language inserted; undefined when the
\* logic is empty.
LangSupport(logic, lang) ==
  IF HasLang(logic, lang) THEN Str(lang)
  ELSE IF HasLang(logic, DefaultLanguage) THEN Str(DefaultLanguage)
  ELSE IF logic # <<>> THEN Str(logic[1][1])
  ELSE UNDEF

\* get() trying, for a key the chosen language lacks, the default language.
MessageGetPerKey(mb, key, lang) ==
  LET keyStr == formatKey(key)
      langSupport == LangSupport(mb.message_logic, lang)
  IN IF langSupport = UNDEF
     THEN <<"[", "!", "N", "o", "n", "e", "V", "a", "r", "i", "a", "b", "l", "e", " ">> \o keyStr \o <<"]">>
     ELSE LET messages == MessagesOf(mb.message_logic, langSupport.v) IN
          IF keyStr \in DOMAIN messages THEN Trim(messages[keyStr])
          ELSE IF /\ HasLang(mb.message_logic, DefaultLanguage)
                  /\ keyStr \in DOMAIN MessagesOf(mb.message_logic, DefaultLanguage)
          THEN Trim(MessagesOf(mb.message_logic, DefaultLanguage)[keyStr])
          ELSE <<>>

\* get(key, lang), lang a string.
MessageGet(mb, key, lang) ==
  LET keyStr == formatKey(key)
      langSupport == LangSupport(mb.message_logic, lang)
  IN IF langSupport = UNDEF
     THEN <<"[", "!", "N", "o", "n", "e", "V", "a", "r", "i", "a", "b", "l", "e", " ">> \o keyStr \o <<"]">>
     ELSE LET messages == MessagesOf(mb.message_logic, langSupport.v) IN
          IF keyStr \in DOMAIN messages THEN Trim(messages[keyStr]) ELSE <<>>

\* A dictionary object {name: value, ...}: the sequence of its <<name, value>>
\* pairs in insertion order, each name a string.
Dict(entries) == [t |-> "object", entries |-> entries]
DictEntries(d) == IF d.t = "object" THEN d.entries ELSE <<>>

\* The forEach of errorMessage over the keys of errorOpt, from key i on.
RECURSIVE Interpolate(_, _, _)
Interpolate(messageContext, opt, i) ==
  IF i > Len(opt) THEN messageContext
  ELSE Interpolate(
         ReplaceAll(messageContext,
                    <<"{", "{">> \o opt[i][1] \o <<"}", "}">>,
                    StringOrEmpty(opt[i][2])),
         opt, i + 1)

\* errorMessage(errorSlug, errorOpt, lang)
MessageErrorMessage(mb, errorSlug, errorOpt, lang) ==
  Interpolate(MessageGet(mb, Str(errorSlug), lang), DictEntries(errorOpt), 1)

\* error() keeping of the pieces after the protocol only the first.
MessageErrorSecondPiece(mb, errorStr, errorOpts, lang) ==
  LET parts == Split(StringOrEmpty(errorStr), ":")
      protocol == parts[1]
      messageContext == Split(IF Len(parts) > 1 THEN parts[2] ELSE <<>>, "|")
      texts == [i \in DOMAIN messageContext |->
                  MessageErrorMessage(mb, messageContext[i],
                                      ArrGet(errorOpts, i - 1), lang)]
  IN [protocol |-> formatKey(Str(protocol)),
      context |-> messageContext,
      params |-> errorOpts,
      message |-> Join(texts, <<",", " ">>)]

\* error(errorStr, errorOpts, lang), errorOpts an array.
MessageError(mb, errorStr, errorOpts, lang) ==
  LET parts == Split(StringOrEmpty(errorStr), ":")
      protocol == parts[1]
      messages == Tail(parts)
      messageContext == Split(Join(messages, <<":">>), "|")
      texts == [i \in DOMAIN messageContext |->
                  MessageErrorMessage(mb, messageContext[i],
                                      ArrGet(errorOpts, i - 1), lang)]
  IN [protocol |-> formatKey(Str(protocol)),
      context |-> messageContext,
      params |-> errorOpts,
      message |-> Join(texts, <<",", " ">>)]

(***************************************************************************)
(* Actions.ResponseBuilder                                                 *)
(***************************************************************************)
ERR_NO_RESPONSE == <<"s", "y", "s", "t", "e", "m", ":", "n", "o", "-", "r", "e", "s", "p", "o", "n", "s", "e", "-", "s", "e", "n", "d", "i", "n", "g">>
ERR_NO_REGISTRY == <<"s", "y", "s", "t", "e", "m", ":", "n", "o", "-", "r", "e", "g", "i", "s", "t", "r", "y">>
ERR_INTERNAL == <<"s", "y", "s", "t", "e", "m", ":", "i", "n", "t", "e", "r", "n", "a", "l", "-", "s", "e", "r", "v", "e", "r", "-", "e", "r", "r", "o", "r">>
ERR_CLIENT_VERSION == <<"s", "y", "s", "t", "e", "m", ":", "c", "l", "i", "e", "n", "t", "-", "v", "e", "r", "s", "i", "o", "n", "-", "r", "e", "q", "u", "i", "r", "e", "d">>
ERR_NEED_UPGRADE == <<"s", "y", "s", "t", "e", "m", ":", "n", "e", "e", "d", "-", "u", "p", "g", "r", "a", "d", "e", "-", "c", "l", "i", "e", "n", "t">>

\* typeof x === "object"
TypeofObject(x) == x.t \in {"object", "array", "null"}

\* isError of ResponseBuilder with the missing-data test left out.
IsErrorResultNoData(dataRes) ==
  \/ ~Truthy(dataRes)
  \/ ~TypeofObject(dataRes)
  \/ IsArray(dataRes)
  \/ Truthy(Prop(dataRes, "error"))

IsErrorResult(dataRes) ==
  \/ ~Truthy(dataRes)
  \/ ~TypeofObject(dataRes)
  \/ IsArray(dataRes)
  \/ Truthy(Prop(dataRes, "error"))
  \/ ~Truthy(Prop(dataRes, "data"))

SetHeaders(dataRes) ==
  LET h == Prop(dataRes, "headers") IN
  IF Truthy(h) /\ TypeofObject(h) /\ ~IsArray(h)
  THEN [i \in DOMAIN DictEntries(h) |->
          [key |-> DictEntries(h)[i][1], value |-> DictEntries(h)[i][2]]]
  ELSE <<>>

CookieToSet(c) ==
  Truthy(c) /\ TypeofObject(c) /\ Truthy(Prop(c, "key")) /\ Truthy(Prop(c, "value"))
CookieToRemove(c) == Truthy(c) /\ IsString(c)

SetCookie(dataRes) ==
  LET sc == Prop(dataRes, "set_cookie") IN
  IF IsArray(sc) THEN SelectSeq(sc.v, CookieToSet) ELSE <<>>

RmCookie(dataRes) ==
  LET rc == Prop(dataRes, "rm_cookie") IN
  IF IsArray(rc) THEN SelectSeq(rc.v, CookieToRemove) ELSE <<>>

\* ResponseBuilder(dataRes, system, lang) with message catalog mb; system is
\* not read.  An undefined dataRes takes the parameter's default, {}.
ResponseBuilder(mb, dataRes0, lang) ==
  LET dataRes == IF dataRes0 = UNDEF THEN Obj(<<>>) ELSE dataRes0
      isError == IsErrorResult(dataRes)
      st == Prop(dataRes, "status")
      responseStatus == IF Truthy(st) THEN st.v ELSE IF isError THEN 400 ELSE 200
      rd == Prop(dataRes, "redirect")
      redirect == IF Truthy(rd) THEN rd ELSE NULL
      err == Prop(dataRes, "error")
      errorCode == IF Truthy(err) THEN err ELSE Str(ERR_NO_RESPONSE)
      pr == Prop(dataRes, "params")
      buildingMessage == MessageError(mb, errorCode,
                                      IF Truthy(pr) THEN pr ELSE Arr(<<>>), lang)
      dt == Prop(dataRes, "data")
  IN IF isError
     THEN [header |-> SetHeaders(dataRes),
           set_cookie |-> SetCookie(dataRes),
           rm_cookie |-> RmCookie(dataRes),
           status |-> responseStatus,
           redirect |-> redirect,
           error |-> errorCode,
           response |-> [status |-> responseStatus,
                         message |-> buildingMessage.message,
                         protocol |-> buildingMessage.protocol,
                         context |-> buildingMessage.context,
                         params |-> buildingMessage.params]]
     ELSE [header |-> SetHeaders(dataRes),
           set_cookie |-> SetCookie(dataRes),
           rm_cookie |-> RmCookie(dataRes),
           status |-> responseStatus,
           redirect |-> redirect,
           error |-> NULL,
           response |-> [status |-> responseStatus,
                         data |-> IF Truthy(dt) THEN dt ELSE Obj(<<>>)]]

\* The object literals the dispatcher itself hands to ResponseBuilder.
ErrorResult(code, status) ==
  Obj(<< <<"error", Str(code)>>, <<"status", Num(status)>> >>)
NeedUpgradeResult(policyInfo) ==
  Obj(<< <<"error", Str(ERR_NEED_UPGRADE)>>,
         <<"status", Num(426)>>,
         <<"params", Arr(<< Dict(<< <<<<"m", "i", "n">>, Str(policyInfo.version_min)>>,
                                    <<<<"n", "o", "w">>, Str(policyInfo.version_now)>> >>) >>)>> >>)

(***************************************************************************)
(* Actions.SystemAction, ServerAction, APIAction                           *)
(***************************************************************************)
\* {...obj, name: value}
ObjSet(obj, name, value) ==
  IF \E i \in DOMAIN obj.e : obj.e[i][1] = name
  THEN Obj([i \in DOMAIN obj.e |->
              IF obj.e[i][1] = name THEN <<name, value>> ELSE obj.e[i]])
  ELSE Obj(Append(obj.e, <<name, value>>))

\* a || b
OrElse(a, b) == IF Truthy(a) THEN a ELSE b

\* One dispatch: pc is where the async function stands ("idle" before the
\* call, "middleware" and "controller" while it awaits that function, "done"
\* once its promise is resolved with ret); args are the arguments of the entry
\* point; activeLang and handler are the locals of SystemAction; stages lists
\* the steps performed so far and invoked the functions called with the
\* argument each received and its outcome once it settled.
IdleCall ==
  [pc |-> "idle", entry |-> "none", args |-> UNDEF, context_manager |-> <<>>,
   activeLang |-> <<>>, handler |-> UNDEF, ret |-> UNDEF,
   stages |-> <<>>, invoked |-> <<>>]

Pending == [settled |-> FALSE, threw |-> FALSE, value |-> UNDEF]
Returned(v) == [settled |-> TRUE, threw |-> FALSE, value |-> v]
Thrown == [settled |-> TRUE, threw |-> TRUE, value |-> UNDEF]

Invocation(fn, system, middleware, args) ==
  [fn |-> fn,
   arg |-> [system |-> system, middleware |-> middleware,
            type |-> args.type, data |-> args.data],
   out |-> Pending]

HeadersOf(system) == OrElse(Prop(system, "headers"), Obj(<<>>))

\* activeLang of SystemAction.
ActiveLang(system) ==
  LET headers == HeadersOf(system)
      clientLangHeader == OrElse(Prop(headers, "x-seishiro-lang"),
                                 Prop(headers, "accept-language"))
  IN IF Truthy(clientLangHeader) THEN extractLanguage(clientLangHeader)
     ELSE OrElse(Prop(system, "lang"), Str(<<"e", "n">>)).v

\* lang of the deny branch of ServerAction and APIAction.
DenyLang(system) ==
  LET headers == HeadersOf(system) IN
  extractLanguage(OrElse(Prop(headers, "x-seishiro-lang"),
                  OrElse(Prop(headers, "accept-language"),
                  OrElse(Prop(system, "lang"), Str(<<"e", "n">>)))))

\* systemWithLang taking its language from a field of the instance, which a
\* dispatch running at the same time has overwritten with its own.
SystemWithLangShared(call) ==
  LET others == {c \in DOMAIN calls : calls[c].pc # "idle" /\ calls[c].args # call.args} IN
  ObjSet(call.args.system, "lang",
         Str(IF others = {} THEN call.activeLang
             ELSE calls[CHOOSE c \in others : TRUE].activeLang))

SystemWithLang(call) == ObjSet(call.args.system, "lang", Str(call.activeLang))

\* The catch block returning its error object as it is.
CaughtRaw(mb, call) ==
  [call EXCEPT !.pc = "done", !.ret = ErrorResult(ERR_INTERNAL, 500)]

\* The catch block of SystemAction.
Caught(mb, call) ==
  [call EXCEPT !.pc = "done",
               !.ret = ResponseBuilder(mb, ErrorResult(ERR_INTERNAL, 500),
                                       call.activeLang)]

\* The first gate never closing.
ClientVersionRequiredNever(context_manager, clientVersion) == FALSE

\* context_manager === "api-action" && !clientVersion
ClientVersionRequired(context_manager, clientVersion) ==
  context_manager = API_ACTION /\ ~Truthy(clientVersion)

\* The second gate: an API client below version_min under forced update.
NeedUpgrade(p, context_manager, clientVersion) ==
  /\ Truthy(clientVersion)
  /\ context_manager = API_ACTION
  /\ ~version_info(p, clientVersion.v).is_version_min
  /\ version_info(p, clientVersion.v).info_upgrade

\* The test for a missing entry left out.
HandlerMissingNever(handler) == FALSE

\* !handler
HandlerMissing(handler) == ~Truthy(handler)

\* SystemAction from its first line to its first await or return; call holds
\* entry, args and the stages of the entry point that delegated to it.  Calling
\* a value that is not a function throws inside the try block.
SystemActionStart(map, p, mb, call, context_manager) ==
  LET args == call.args
      system == args.system
      middleware == IF args.middleware = UNDEF THEN Obj(<<>>) ELSE args.middleware
      headers == HeadersOf(system)
      activeLang == ActiveLang(system)
      policyInfo == PolicyApply(p)
      clientVersion == Prop(headers, "x-seishiro-client")
      c0 == [call EXCEPT !.context_manager = context_manager,
                         !.activeLang = activeLang,
                         !.stages = Append(@, "system")]
      handler == RegistryGetOp(map, OrElse(args.type, Str(<<>>)))
      c1 == [c0 EXCEPT !.stages = Append(@, "lookup"), !.handler = handler]
      first == IF IsArray(handler) THEN ArrGet(handler, 0) ELSE handler
  IN IF ClientVersionRequired(context_manager, clientVersion)
     THEN [c0 EXCEPT !.pc = "done",
                     !.ret = ResponseBuilder(mb, ErrorResult(ERR_CLIENT_VERSION, 400),
                                             activeLang)]
     ELSE IF NeedUpgrade(p, context_manager, clientVersion)
     THEN [c0 EXCEPT !.pc = "done",
                     !.ret = ResponseBuilder(mb, NeedUpgradeResult(policyInfo),
                                             activeLang)]
     ELSE IF HandlerMissing(handler)
     THEN [c1 EXCEPT !.pc = "done",
                     !.ret = ResponseBuilder(mb, ErrorResult(ERR_NO_REGISTRY, 404),
                                             activeLang)]
     ELSE IF ~IsFunction(first)
     THEN Caught(mb, c1)
     ELSE IF IsArray(handler)
     THEN [c1 EXCEPT !.pc = "middleware",
                     !.stages = Append(@, "middleware"),
                     !.invoked = Append(@, Invocation(first, SystemWithLang(c1),
                                                      middleware, args))]
     ELSE [c1 EXCEPT !.pc = "controller",
                     !.stages = Append(@, "controller"),
                     !.invoked = Append(@, Invocation(first, SystemWithLang(c1),
                                                      middleware, args))]

Settle(call, out) == [call EXCEPT !.invoked[Len(call.invoked)].out = out]

\* The resumption after the middleware reading the entry of the key from the
\* registry again, as it is by then.
AfterMiddlewareRereads(p, mb, call, out) ==
  LET c0 == Settle(call, out)
      mwResult == out.value
      again == RegistryGetOp(registry_logic, OrElse(call.args.type, Str(<<>>)))
      controller == IF IsArray(again) THEN ArrGet(again, 1) ELSE again
      currentMiddleware ==
        IF PolicyApply(p).skip_middleware_context \/ Truthy(Prop(mwResult, "skipBuilder"))
        THEN mwResult
        ELSE ResponseBuilder(mb, mwResult, call.activeLang)
  IN IF out.threw \/ ~IsFunction(controller) THEN Caught(mb, c0)
     ELSE [c0 EXCEPT !.pc = "controller",
                     !.stages = Append(@, "controller"),
                     !.invoked = Append(@, Invocation(controller, SystemWithLang(call),
                                                      currentMiddleware, call.args))]

\* The resumption after the middleware handing the controller the caller's
\* middleware field, the result of the middleware dropped.
AfterMiddlewareKeepCaller(p, mb, call, out) ==
  LET c0 == Settle(call, out) IN
  IF out.threw \/ ~IsFunction(ArrGet(call.handler, 1)) THEN Caught(mb, c0)
  ELSE [c0 EXCEPT !.pc = "controller",
                  !.stages = Append(@, "controller"),
                  !.invoked = Append(@, Invocation(ArrGet(call.handler, 1),
                                       SystemWithLang(call),
                                       call.invoked[1].arg.middleware,
                                       call.args))]

\* The resumption after the middleware normalizing its result whatever the
\* policy and the result say.
AfterMiddlewareAlwaysBuilds(p, mb, call, out) ==
  LET c0 == Settle(call, out) IN
  IF out.threw \/ ~IsFunction(ArrGet(call.handler, 1)) THEN Caught(mb, c0)
  ELSE [c0 EXCEPT !.pc = "controller",
                  !.stages = Append(@, "controller"),
                  !.invoked = Append(@, Invocation(ArrGet(call.handler, 1),
                                       SystemWithLang(call),
                                       ResponseBuilder(mb, out.value, call.activeLang),
                                       call.args))]

\* The resumption after the middleware answering the caller with the
\* middleware's error, the controller not called.
AfterMiddlewareStopsOnError(p, mb, call, out) ==
  LET c0 == Settle(call, out) IN
  IF out.threw \/ ~IsFunction(ArrGet(call.handler, 1)) THEN Caught(mb, c0)
  ELSE IF Truthy(Prop(out.value, "error"))
  THEN [c0 EXCEPT !.pc = "done",
                  !.ret = ResponseBuilder(mb, out.value, call.activeLang)]
  ELSE [c0 EXCEPT !.pc = "controller",
                  !.stages = Append(@, "controller"),
                  !.invoked = Append(@, Invocation(ArrGet(call.handler, 1),
                                       SystemWithLang(call),
                                       ResponseBuilder(mb, out.value, call.activeLang),
                                       call.args))]

\* SystemAction resumed after `await middlewareFn(...)` settled with out, up to
\* its next await (the controller's call) or its return from the catch block.
AfterMiddleware(p, mb, call, out) ==
  LET c0 == Settle(call, out)
      mwResult == out.value
      currentMiddleware ==
        IF PolicyApply(p).skip_middleware_context \/ Truthy(Prop(mwResult, "skipBuilder"))
        THEN mwResult
        ELSE ResponseBuilder(mb, mwResult, call.activeLang)
  IN IF out.threw \/ ~IsFunction(ArrGet(call.handler, 1)) THEN Caught(mb, c0)
     ELSE [c0 EXCEPT !.pc = "controller",
                     !.stages = Append(@, "controller"),
                     !.invoked = Append(@, Invocation(ArrGet(call.handler, 1),
                                          SystemWithLang(call), currentMiddleware,
                                          call.args))]

\* The resumption after the controller with its failure taken as no result.
AfterControllerNoCatch(mb, call, out) ==
  [Settle(call, out) EXCEPT
     !.pc = "done",
     !.stages = Append(@, "normalize"),
     !.ret = ResponseBuilder(mb, out.value, call.activeLang)]

\* SystemAction resumed after `await finalHandler(...)` settled with out.
AfterController(mb, call, out) ==
  IF out.threw THEN Caught(mb, Settle(call, out))
  ELSE [Settle(call, out) EXCEPT
          !.pc = "done",
          !.stages = Append(@, "normalize"),
          !.ret = ResponseBuilder(mb, out.value, call.activeLang)]

\* The deny branch of ServerAction and APIAction.
Denied(mb, call) ==
  [call EXCEPT !.pc = "done",
               !.ret = ResponseBuilder(mb, ErrorResult(ERR_NO_REGISTRY, 404),
                                       DenyLang(call.args.system))]

NewCall(entry, args) ==
  [IdleCall EXCEPT !.entry = entry, !.args = args]

\* SystemAction stopping at the deny-lists of both protocols.
SystemActionCallDenying(map, p, mb, args) ==
  IF \/ Includes(PolicyApply(p).noaction_server, OrElse(args.type, Str(<<>>)).v)
     \/ Includes(PolicyApply(p).noaction_api, OrElse(args.type, Str(<<>>)).v)
  THEN Denied(mb, NewCall("SystemAction", args))
  ELSE SystemActionStart(map, p, mb, NewCall("SystemAction", args),
                         OrElse(args.context_manager, Str(SYSTEM_ACTION)).v)

\* SystemAction called directly: context_manager is the caller's, and
\* "system-action" when the caller gives none.
SystemActionCall(map, p, mb, args) ==
  SystemActionStart(map, p, mb, NewCall("SystemAction", args),
                    OrElse(args.context_manager, Str(SYSTEM_ACTION)).v)

ServerActionCall(map, p, mb, args) ==
  LET call == [NewCall("ServerAction", args) EXCEPT !.stages = <<"deny">>] IN
  IF Includes(PolicyApply(p).noaction_server, OrElse(args.type, Str(<<>>)).v)
  THEN Denied(mb, call)
  ELSE SystemActionStart(map, p, mb, call, SERVER_ACTION)

\* APIAction delegating at once, its deny-list left unread.
APIActionCallNoDeny(map, p, mb, args) ==
  SystemActionStart(map, p, mb,
                    [NewCall("APIAction", args) EXCEPT !.stages = <<"deny">>],
                    API_ACTION)

APIActionCall(map, p, mb, args) ==
  LET call == [NewCall("APIAction", args) EXCEPT !.stages = <<"deny">>] IN
  IF Includes(PolicyApply(p).noaction_api, OrElse(args.type, Str(<<>>)).v)
  THEN Denied(mb, call)
  ELSE SystemActionStart(map, p, mb, call, API_ACTION)

(***************************************************************************)
(* Actions.BookRegistry                                                    *)
(***************************************************************************)
\* Object.keys(x): the own enumerable property names of x.  The entries of a
\* Map are not properties of the Map object, so a Map has none.
ObjectKeys(x) ==
  IF x.t = "Map" THEN <<>>
  ELSE IF x.t = "object" /\ "e" \in DOMAIN x THEN [i \in DOMAIN x.e |-> x.e[i][1]]
  ELSE <<>>

\* The manifest built with initialization vector ivKey: digest, cipher and hex
\* encoding are kept as terms over their arguments.
BuildBook(map, p, ivKey) ==
  LET policyInfo == PolicyApply(p)
      registry == map
      keyencrypt == [sha256 |-> Trim(StringOrEmpty(Str(policyInfo.passkey)))]
      buildRegistry ==
        [listkey |-> SelectSeq(ObjectKeys(registry),
                               LAMBDA a : ~Includes(policyInfo.noaction_api, a)),
         version_now |-> policyInfo.version_now,
         version_min |-> policyInfo.version_min,
         version_forceupdate |-> policyInfo.version_forceupdate]
  IN [iv_length |-> 16,
      type_base |-> "hex",
      iv |-> [hex |-> ivKey],
      data |-> [hex |-> <<ivKey, [cipher |-> "aes-256-ctr", key |-> keyencrypt,
                                  iv |-> ivKey,
                                  plain |-> [json |-> buildRegistry]]>>]]

\* BookRegistry() that builds on every call.
BookRegistryOpNoCache(cache, map, p, ivKey) ==
  [cache |-> BuildBook(map, p, ivKey), ret |-> BuildBook(map, p, ivKey), built |-> TRUE]

\* BookRegistry() with cache_book = cache; ivKey is what crypto.randomBytes
\* yields when it is called.
BookRegistryOp(cache, map, p, ivKey) ==
  IF cache # NULL THEN [cache |-> cache, ret |-> cache, built |-> FALSE]
  ELSE [cache |-> BuildBook(map, p, ivKey), ret |-> BuildBook(map, p, ivKey),
        built |-> TRUE]

\* The object BookRegistry serialized and encrypted into manifest book.
PlainOf(book) == book.data.hex[2].plain.json

(***************************************************************************)
(* Inputs of the registry operations                                       *)
(***************************************************************************)
KeyA == <<"a">>
KeyA2 == <<" ", "A", "!">>
KeyB == <<"b">>
RawKeys == {KeyA, KeyA2, KeyB}

\* Keys passed to set(): strings, and one value that is not a string.
SetKeys == {Str(k) : k \in RawKeys} \cup {Num(7)}
\* Controllers passed to set(): two functions and a value that is not callable.
SetFunctions == {Fn("h1"), Fn("h2"), Str(<<"x">>)}
\* Middlewares passed to set(): none, a function, a truthy value not callable.
SetMiddlewares == {UNDEF, Fn("m1"), Str(<<"x">>)}

PlainObject(entries) == [t |-> "object", entries |-> entries]
\* Another RegistryBuilder, in the state the given set() calls leave it in.
RECURSIVE BuilderAfter(_, _)
BuilderAfter(st, sets) ==
  IF sets = <<>> THEN st
  ELSE BuilderAfter(
         RegistrySetOp(st, Head(sets)[1], Head(sets)[2], Head(sets)[3]),
         Tail(sets))
OtherBuilder(sets) ==
  [t |-> "RegistryBuilder",
   map |-> BuilderAfter([map |-> EmptyMap, log |-> <<>>, threw |-> FALSE], sets).map]

UseInputs ==
  { PlainObject(<< <<KeyA, Arr(<<Fn("m1")>>)>>, <<KeyB, Fn("h1")>> >>),
    PlainObject(<< <<KeyB, Fn("h1")>>, <<KeyA2, Arr(<<Fn("m1"), Fn("h2")>>)>> >>),
    PlainObject(<< <<KeyA, Str(<<"x">>)>>, <<KeyB, Fn("h2")>> >>),
    PlainObject(<< <<KeyA, Arr(<<Str(<<"x">>), Fn("h1")>>)>> >>),
    OtherBuilder(<< <<Str(KeyA2), Fn("h2"), Fn("m1")>> >>),
    [t |-> "Map", m |-> (KeyA :> Fn("h1"))],
    Str(<<"x">>) }

\* The Map writes use(input) can make at most.
UseSize(input) ==
  IF input.t = "object" THEN Len(input.entries)
  ELSE IF input.t = "RegistryBuilder" THEN Cardinality(DOMAIN input.map.m)
  ELSE 0

NoRet == [op |-> "none", key |-> UNDEF, input |-> UNDEF, value |-> UNDEF, threw |-> FALSE]

(***************************************************************************)
(* Configurations and request inputs                                       *)
(***************************************************************************)
KeyC == <<"c">>
KeyD == <<"d">>

V_1_4_0 == <<"1", ".", "4", ".", "0">>
V_1_4_5 == <<"1", ".", "4", ".", "5">>
PassKey == <<"t", "e", "s", "t", "i", "n", "g", "1", "2", "3", "4">>

\* The policy after the constructor and the given noaction() calls.
RECURSIVE PolicyAfter(_, _)
PolicyAfter(p, denies) ==
  IF denies = <<>> THEN p
  ELSE PolicyAfter(PolicyNoactionOp(p, Str(Head(denies)[1]), Head(denies)[2]).policy,
                   Tail(denies))

NewPolicy(force, skip) == PolicyConstructor(PassKey, V_1_4_5, V_1_4_0, force, skip)

\* No deny-list entry; or "b" denied to the API, "a" to server actions and
\* "d", which is not registered, to both.
DenyConfigs ==
  { <<>>,
    << <<KeyB, <<API_ACTION>> >>, <<KeyA, <<SERVER_ACTION>> >>,
       <<KeyD, <<SERVER_ACTION, API_ACTION>> >> >> }

\* "a", which is registered, denied to both protocols.
DenyBoth == << <<KeyA, <<SERVER_ACTION, API_ACTION>> >> >>

PolicyConfigs ==
  { PolicyAfter(NewPolicy(force, skip), d) :
      force \in BOOLEAN, skip \in BOOLEAN, d \in DenyConfigs }
    \cup {PolicyAfter(NewPolicy(FALSE, FALSE), DenyBoth)}

\* The message builders: "en" with the five system messages, "id" with its
\* own, and "en" after use() of the "id" builder.
RECURSIVE MessageAfter(_, _)
MessageAfter(mb, sets) ==
  IF sets = <<>> THEN mb
  ELSE MessageAfter(MessageSetOp(mb, Str(Head(sets)[1]), Str(Head(sets)[2])).mb,
                    Tail(sets))

EnBuilder ==
  MessageAfter(MessageConstructor(Str(<<"e", "n">>)),
    << <<<<"n", "o", "-", "r", "e", "s", "p", "o", "n", "s", "e", "-", "s", "e", "n", "d", "i", "n", "g">>, <<"N", "o", " ", "r", "e", "s", "p", "o", "n", "s", "e">>>>, <<<<"n", "o", "-", "r", "e", "g", "i", "s", "t", "r", "y">>, <<"N", "o", "t", " ", "f", "o", "u", "n", "d">>>>, <<<<"i", "n", "t", "e", "r", "n", "a", "l", "-", "s", "e", "r", "v", "e", "r", "-", "e", "r", "r", "o", "r">>, <<"I", "n", "t", "e", "r", "n", "a", "l", " ", "e", "r", "r", "o", "r">>>>, <<<<"c", "l", "i", "e", "n", "t", "-", "v", "e", "r", "s", "i", "o", "n", "-", "r", "e", "q", "u", "i", "r", "e", "d">>, <<"V", "e", "r", "s", "i", "o", "n", " ", "r", "e", "q", "u", "i", "r", "e", "d">>>>,
       <<<<"n", "e", "e", "d", "-", "u", "p", "g", "r", "a", "d", "e", "-", "c", "l", "i", "e", "n", "t">>, <<"U", "p", "g", "r", "a", "d", "e", " ", "t", "o", " ", "{", "{", "m", "i", "n", "}", "}">>>> >>)
IdBuilder ==
  MessageAfter(MessageConstructor(Str(<<"i", "d">>)),
    << <<<<"n", "o", "-", "r", "e", "s", "p", "o", "n", "s", "e", "-", "s", "e", "n", "d", "i", "n", "g">>, <<"T", "a", "n", "p", "a", " ", "r", "e", "s", "p", "o", "n">>>>, <<<<"n", "o", "-", "r", "e", "g", "i", "s", "t", "r", "y">>, <<"T", "i", "d", "a", "k", " ", "a", "d", "a">>>>, <<<<"i", "n", "t", "e", "r", "n", "a", "l", "-", "s", "e", "r", "v", "e", "r", "-", "e", "r", "r", "o", "r">>, <<"G", "a", "l", "a", "t">>>>, <<<<"c", "l", "i", "e", "n", "t", "-", "v", "e", "r", "s", "i", "o", "n", "-", "r", "e", "q", "u", "i", "r", "e", "d">>, <<"V", "e", "r", "s", "i", " ", "w", "a", "j", "i", "b">>>>,
       <<<<"n", "e", "e", "d", "-", "u", "p", "g", "r", "a", "d", "e", "-", "c", "l", "i", "e", "n", "t">>, <<"P", "e", "r", "b", "a", "r", "u", "i", " ", "k", "e", " ", "{", "{", "m", "i", "n", "}", "}">>>> >>)
EnIdBuilder == MessageUseOp(EnBuilder, [t |-> "MessageBuilder", mb |-> IdBuilder]).mb

MessageConfigs == {MessageConstructor(UNDEF), EnIdBuilder}

\* The registry after set(" A!", h1, m1) and set("b", h2): "a" is a
\* (middleware, handler) pair, "b" a bare handler and "c" is not registered.
ServingRegistry ==
  BuilderAfter([map |-> EmptyMap, log |-> <<>>, threw |-> FALSE],
               << <<Str(KeyA2), Fn("h1"), Fn("m1")>>,
                  <<Str(KeyB), Fn("h2"), UNDEF>> >>)

\* Request headers.
Headers(xlang, accept, client) ==
  Obj(<< <<"x-seishiro-lang", xlang>>, <<"accept-language", accept>>,
         <<"x-seishiro-client", client>> >>)
L_id == <<"i", "d">>
L_idID == <<"i", "d", "-", "I", "D">>
AcceptEn == <<"e", "n", "-", "U", "S", ",", "e", "n", ";", "q", "=", "0", ".", "9">>
AcceptId == <<"i", "d", "-", "I", "D", ",", "e", "n", ";", "q", "=", "0", ".", "8">>

HeaderSets ==
  { Obj(<<>>),
    Headers(UNDEF, UNDEF, Str(<<>>)),
    Headers(UNDEF, UNDEF, Str(<<"1", ".", "4">>)),
    Headers(Str(L_id), UNDEF, Str(<<"2">>)),
    Headers(UNDEF, Str(AcceptEn), Str(<<"1", ".", "3", ".", "9">>)),
    Headers(Str(L_id), Str(AcceptEn), UNDEF),
    Headers(UNDEF, Str(AcceptId), Str(V_1_4_5)) }

SystemLangs == {UNDEF, Str(L_id), Str(L_idID)}

System(headers, lang) == Obj(<< <<"headers", headers>>, <<"lang", lang>> >>)

CallerMiddlewares == {UNDEF, Obj(<< <<"token", Str(<<"t">>)>> >>)}
ContextManagers == {UNDEF, Str(API_ACTION), Str(SERVER_ACTION)}
Types == {Str(KeyA2), Str(KeyA), Str(KeyB), Str(KeyC), Str(KeyD)}

Args(system, middleware, context_manager, type) ==
  [system |-> system, middleware |-> middleware,
   context_manager |-> context_manager, type |-> type, data |-> Obj(<<>>)]

\* The caller's middleware context is given with the plainest request only.
AllArgs ==
  { Args(System(h, l), UNDEF, UNDEF, ty) :
      h \in HeaderSets, l \in SystemLangs, ty \in Types }
  \cup
  { Args(System(Headers(UNDEF, UNDEF, Str(V_1_4_5)), UNDEF), mw, UNDEF, ty) :
      mw \in CallerMiddlewares, ty \in Types }

\* What a handler or a middleware may return.
Cookie(k, v) == Obj(<< <<"key", Str(k)>>, <<"value", Str(v)>> >>)
RawResults ==
  { UNDEF,
    Str(<<"x">>),
    Arr(<<>>),
    Obj(<< <<"data", Obj(<< <<"ok", Bool(TRUE)>> >>)>> >>),
    Obj(<< <<"status", Num(204)>> >>),
    Obj(<< <<"error", Str(<<"a", "u", "t", "h", ":", "d", "e", "n", "i", "e", "d">>)>>, <<"status", Num(401)>> >>),
    Obj(<< <<"data", Obj(<<>>)>>, <<"skipBuilder", Bool(TRUE)>> >>),
    Obj(<< <<"data", Obj(<<>>)>>, <<"status", Num(201)>>,
           <<"headers", Dict(<< <<<<"x", "-", "a">>, Str(<<"1">>)>> >>)>>,
           <<"set_cookie", Arr(<<Cookie(<<"s", "i", "d">>, <<"1">>), Obj(<< <<"key", Str(<<"s", "i", "d">>)>> >>)>>)>>,
           <<"rm_cookie", Arr(<<Str(<<"o", "l", "d">>), Num(5)>>)>>,
           <<"redirect", Str(<<"/", "h", "o", "m", "e">>)>> >>) }

Outcomes == {Thrown} \cup {Returned(r) : r \in RawResults}

\* What a middleware may hand on: nothing, an error, a context to pass as is.
MiddlewareResults ==
  { r \in RawResults :
      \/ r = UNDEF
      \/ Truthy(Prop(r, "error"))
      \/ Truthy(Prop(r, "skipBuilder")) }
MiddlewareOutcomes == {Thrown} \cup {Returned(r) : r \in MiddlewareResults}

\* Initialization vectors crypto.randomBytes may yield.
IVs == {"iv1", "iv2"}

(***************************************************************************)
(* Registry actions                                                        *)
(***************************************************************************)
RegistryState == [map |-> registry_logic, log |-> writes, threw |-> FALSE]

RegistrySet(key, function_regis, middleware) ==
  /\ Len(writes) < MaxWrites
  /\ LET r == RegistrySetOp(RegistryState, key, function_regis, middleware) IN
     /\ registry_logic' = r.map
     /\ writes' = r.log
     /\ reg_ret' = [NoRet EXCEPT !.op = "set", !.key = key, !.threw = r.threw]
  /\ UNCHANGED <<policyVars, messageVars, bookVars, calls>>

RegistryGet(key) ==
  /\ reg_ret' = [NoRet EXCEPT !.op = "get", !.key = key,
                              !.value = RegistryGetOp(registry_logic, key)]
  /\ UNCHANGED <<registry_logic, writes, policyVars, messageVars, bookVars, calls>>

RegistryUse(input) ==
  /\ Len(writes) + UseSize(input) <= MaxWrites
  /\ LET r == RegistryUseOp(RegistryState, input) IN
     /\ registry_logic' = r.map
     /\ writes' = r.log
     /\ reg_ret' = [NoRet EXCEPT !.op = "use", !.input = input, !.threw = r.threw]
  /\ UNCHANGED <<policyVars, messageVars, bookVars, calls>>

\* The state after construction: an empty registry, a policy without
\* deny-list entries, no manifest built, no dispatch made.
NoMsgRet == [op |-> "none", args |-> <<>>, value |-> UNDEF]

NoPolRet ==
  [op |-> "none", type |-> UNDEF, action |-> <<>>, threw |-> FALSE,
   before |-> UNDEF, args |-> <<>>, value |-> UNDEF]
Slots == {1, 2}

Constructed ==
  /\ registry_logic = EmptyMap
  /\ writes = <<>>
  /\ reg_ret = NoRet
  /\ policy \in {NewPolicy(force, FALSE) : force \in BOOLEAN}
  /\ pol_ret = NoPolRet
  /\ message = EnIdBuilder
  /\ msg_ret = NoMsgRet
  /\ cache_book = NULL
  /\ book_log = <<>>
  /\ builds = 0
  /\ calls = [c \in Slots |-> IdleCall]

InitRegistry == Constructed

NextRegistry ==
  \/ \E key \in SetKeys, f \in SetFunctions, mw \in SetMiddlewares :
       RegistrySet(key, f, mw)
  \/ \E key \in SetKeys : RegistryGet(key)
  \/ \E input \in UseInputs : RegistryUse(input)

SpecRegistry == InitRegistry /\ [][NextRegistry]_vars

(***************************************************************************)
(* Claims about the registry                                               *)
(***************************************************************************)
\* The entry a write with arguments w = [key, fn, mw] is to leave behind.
EntryOf(w) == IF IsFunction(w.mw) THEN Pair(w.mw, w.fn) ELSE w.fn

SameKey(k1, k2) == formatKey(k1) = formatKey(k2)

\* The writes of the history whose key normalizes like k.
WritesFor(k) ==
  LET keyStr == formatKey(k) IN
  {i \in DOMAIN writes : formatKey(writes[i].key) = keyStr}

\* C8: set(k1, h[, m]) followed by get(k2), with k1 and k2 normalizing to the
\* same string, returns h itself, or the pair [m, h] when a callable middleware
\* was given; get of a key never written returns undefined; get never throws.
C8_SetThenGet ==
  reg_ret.op = "get" =>
    /\ ~reg_ret.threw
    /\ (writes # <<>> /\ SameKey(writes[Len(writes)].key, reg_ret.key))
         => reg_ret.value = EntryOf(writes[Len(writes)])
    /\ WritesFor(reg_ret.key) = {} => reg_ret.value = UNDEF

C8_Witness ==
  /\ reg_ret.op = "get"
  /\ writes # <<>>
  /\ writes[Len(writes)].key # reg_ret.key
  /\ SameKey(writes[Len(writes)].key, reg_ret.key)
  /\ IsArray(reg_ret.value)
  /\ reg_ret.value = Pair(Fn("m1"), writes[Len(writes)].fn)

\* C9: after any sequence of set and use calls, get(k) is the entry of the most
\* recent write whose key normalizes like k, and undefined when there is none.
C9_LastWriteWins ==
  \A k \in SetKeys :
    LET w == WritesFor(k) IN
    RegistryGetOp(registry_logic, k) =
      (IF w = {} THEN UNDEF
       ELSE EntryOf(writes[CHOOSE i \in w : \A j \in w : j <= i]))

\* A pair was stored, then a set without middleware under another spelling of
\* the key replaced it by the bare handler.
C9_Witness ==
  /\ Len(writes) >= 2
  /\ \E i, j \in DOMAIN writes :
       /\ i < j
       /\ j = Len(writes)
       /\ SameKey(writes[i].key, writes[j].key)
       /\ writes[i].key # writes[j].key
       /\ IsFunction(writes[i].mw)
       /\ writes[j].mw = UNDEF
       /\ RegistryGetOp(registry_logic, writes[i].key) = writes[j].fn

\* An entry [key, val] of a mapping is well-formed when val is a function or
\* an array whose handler val[1] is callable.
WellFormed(val) ==
  IsFunction(val) \/ (IsArray(val) /\ IsFunction(ArrGet(val, 1)))
EntryOfVal(val) ==
  IF IsArray(val)
  THEN EntryOf([fn |-> ArrGet(val, 1), mw |-> ArrGet(val, 0)])
  ELSE val

\* C10: use(mapping) never throws on a malformed entry; malformed entries are
\* skipped and every well-formed entry of the mapping is merged.
C10_UseSkipsMalformed ==
  (reg_ret.op = "use" /\ reg_ret.input.t = "object") =>
    /\ ~reg_ret.threw
    /\ \A i \in DOMAIN reg_ret.input.entries :
         LET e == reg_ret.input.entries
             same == {j \in DOMAIN e : /\ WellFormed(e[j][2])
                                       /\ SameKey(Str(e[j][1]), Str(e[i][1]))}
             last == CHOOSE j \in same : \A l \in same : l <= j
         IN WellFormed(e[i][2]) =>
              RegistryGetOp(registry_logic, Str(e[i][1])) = EntryOfVal(e[last][2])

(***************************************************************************)
(* Policy, manifest and dispatch actions                                   *)
(***************************************************************************)
MaxDeny == 2
MaxBookCalls == 2

\* policy.noaction(type, action)
PolicyNoaction(type, action) ==
  /\ Len(policy.noaction_api) + Len(policy.noaction_server) + Len(action) <= MaxDeny
  /\ LET r == PolicyNoactionOp(policy, type, action) IN
     /\ policy' = r.policy
     /\ pol_ret' = [NoPolRet EXCEPT !.op = "noaction", !.type = type,
                                   !.action = action, !.threw = r.threw,
                                   !.before = policy]
  /\ UNCHANGED <<registryVars, messageVars, bookVars, calls>>

\* BookRegistry(), with ivKey what crypto.randomBytes would yield.
BookRegistry(ivKey) ==
  /\ Len(book_log) < MaxBookCalls
  /\ LET r == BookRegistryOp(cache_book, registry_logic, policy, ivKey) IN
     /\ cache_book' = r.cache
     /\ book_log' = Append(book_log, [ret |-> r.ret,
                                      writes |-> Len(writes),
                                      denied_api |-> Len(policy.noaction_api)])
     /\ builds' = IF r.built THEN builds + 1 ELSE builds
  /\ UNCHANGED <<registryVars, policyVars, messageVars, calls>>

\* A caller in slot c calls SystemAction(args) and the function runs to its
\* first await or to its return.
SystemAction(c, args) ==
  /\ calls[c].pc = "idle"
  /\ calls' = [calls EXCEPT ![c] = SystemActionCall(registry_logic, policy, message, args)]
  /\ UNCHANGED <<registryVars, policyVars, messageVars, bookVars>>

ServerAction(c, args) ==
  /\ calls[c].pc = "idle"
  /\ calls' = [calls EXCEPT ![c] = ServerActionCall(registry_logic, policy, message, args)]
  /\ UNCHANGED <<registryVars, policyVars, messageVars, bookVars>>

APIAction(c, args) ==
  /\ calls[c].pc = "idle"
  /\ calls' = [calls EXCEPT ![c] = APIActionCall(registry_logic, policy, message, args)]
  /\ UNCHANGED <<registryVars, policyVars, messageVars, bookVars>>

\* The middleware awaited by the call in slot c settles with out.
MiddlewareSettles(c, out) ==
  /\ calls[c].pc = "middleware"
  /\ calls' = [calls EXCEPT ![c] = AfterMiddleware(policy, message, calls[c], out)]
  /\ UNCHANGED <<registryVars, policyVars, messageVars, bookVars>>

\* The controller awaited by the call in slot c settles with out.
ControllerSettles(c, out) ==
  /\ calls[c].pc = "controller"
  /\ calls' = [calls EXCEPT ![c] = AfterController(message, calls[c], out)]
  /\ UNCHANGED <<registryVars, policyVars, messageVars, bookVars>>

(***************************************************************************)
(* The policy on its own                                                   *)
(***************************************************************************)
\* policy.version_info(clientVersion)
PolicyVersionInfo(clientVersion) ==
  /\ pol_ret' = [NoPolRet EXCEPT !.op = "version_info",
                                 !.args = <<clientVersion>>,
                                 !.value = version_info(policy, clientVersion)]
  /\ UNCHANGED <<policy, registryVars, messageVars, bookVars, calls>>

V_1_4 == <<"1", ".", "4">>
V_1_4_2 == <<"1", ".", "4", ".", "2">>
V_1_4_2_rc == <<"1", ".", "4", ".", "2", "-", "r", "c">>
V_1_4_5_beta == <<"1", ".", "4", ".", "5", "-", "b", "e", "t", "a">>
V_1_3_9 == <<"1", ".", "3", ".", "9">>
V_1_10 == <<"1", ".", "1", "0">>
V_1_x_3 == <<"1", ".", "x", ".", "3">>
V_2 == <<"2">>

\* The version strings clients send.
ClientVersions ==
  { <<>>, V_1_3_9, V_1_4, V_1_4_0, V_1_4_2, V_1_4_2_rc, V_1_4_5, V_1_4_5_beta,
    V_1_10, V_1_x_3, V_2 }

\* <<version_min, version_now>> of the policies.
PolicyVersions ==
  { <<V_1_4_0, V_1_4_5>>, <<V_1_4, V_1_10>>, <<V_1_4_2, V_1_4_5_beta>>,
    <<V_1_4_2_rc, V_2>>, <<V_1_x_3, V_1_4_5>> }

\* Keys and protocol lists passed to noaction(): strings, values that are not
\* strings, no key; valid lists, and lists naming an unknown protocol first,
\* last or alone.
NoactionTypes == {Str(KeyA), Str(KeyB), Num(7), NULL, UNDEF}
NoactionProtocols ==
  { <<>>, <<API_ACTION>>, <<SERVER_ACTION>>, <<API_ACTION, SERVER_ACTION>>,
    <<API_ACTION, API_ACTION>>, <<API_ACTION, <<"g", "q", "l">> >>,
    << <<"g", "q", "l">>, SERVER_ACTION>>, << <<"g", "q", "l">> >> }

InitPolicy ==
  /\ registry_logic = EmptyMap
  /\ writes = <<>>
  /\ reg_ret = NoRet
  /\ policy \in { PolicyConstructor(PassKey, v[2], v[1], force, FALSE) :
                    v \in PolicyVersions, force \in BOOLEAN }
  /\ pol_ret = NoPolRet
  /\ message = EnIdBuilder
  /\ msg_ret = NoMsgRet
  /\ cache_book = NULL
  /\ book_log = <<>>
  /\ builds = 0
  /\ calls = [c \in Slots |-> IdleCall]

NextPolicy ==
  \/ \E type \in NoactionTypes, action \in NoactionProtocols :
       PolicyNoaction(type, action)
  \/ \E clientVersion \in ClientVersions : PolicyVersionInfo(clientVersion)

SpecPolicy == InitPolicy /\ [][NextPolicy]_vars

\* Three comparisons over the tuples a, b and c: a with b, b with c, a with c.
PolicyCompare(a, b, c) ==
  /\ pol_ret' = [NoPolRet EXCEPT !.op = "compare",
                                 !.args = <<a, b, c>>,
                                 !.value = [ab |-> compare(a, b),
                                            bc |-> compare(b, c),
                                            ac |-> compare(a, c)]]
  /\ UNCHANGED <<policy, registryVars, messageVars, bookVars, calls>>

\* The tuples parseVersion yields, of one to four segments, NaN among them.
VersionTuples ==
  {parseVersion(v) : v \in {<<>>, V_1_4, V_1_4_0, V_1_4_2_rc, V_1_4_5, V_1_10,
                            V_1_x_3, V_2, <<"1", ".", "4", ".", "0", ".", "1">>}}

InitCompare ==
  /\ InitPolicy
  /\ policy.version_min = V_1_4_0
  /\ policy.version_forceupdate

NextCompare == \E a, b, c \in VersionTuples : PolicyCompare(a, b, c)

SpecCompare == InitCompare /\ [][NextCompare]_vars

(***************************************************************************)
(* The message catalog on its own                                          *)
(***************************************************************************)
MaxMessages == 2

\* The number of templates in the catalog, all languages together.
RECURSIVE CatalogSize(_)
CatalogSize(logic) ==
  IF logic = <<>> THEN 0
  ELSE Cardinality(DOMAIN Head(logic)[2]) + CatalogSize(Tail(logic))

\* The lang parameter of get, errorMessage and error: this.message_build_lang
\* when the caller gives none.
LangOrBuild(mb, lang) == IF lang = UNDEF THEN mb.message_build_lang ELSE lang.v

\* message.set(key, value)
MessageSet(key, value) ==
  /\ CatalogSize(message.message_logic) < MaxMessages
  /\ LET r == MessageSetOp(message, key, value) IN
     /\ message' = r.mb
     /\ msg_ret' = [NoMsgRet EXCEPT !.op = "set", !.args = <<key, value>>,
                                    !.value = Bool(r.threw)]
  /\ UNCHANGED <<registryVars, policyVars, bookVars, calls>>

\* message.use(input)
MessageUse(input) ==
  /\ CatalogSize(message.message_logic) < MaxMessages
  /\ LET r == MessageUseOp(message, input) IN
     /\ message' = r.mb
     /\ msg_ret' = [NoMsgRet EXCEPT !.op = "use", !.args = <<input>>,
                                    !.value = Bool(r.threw)]
  /\ UNCHANGED <<registryVars, policyVars, bookVars, calls>>

\* message.get(key, lang)
MessageGetCall(key, lang) ==
  /\ msg_ret' = [NoMsgRet EXCEPT
                   !.op = "get", !.args = <<key, lang>>,
                   !.value = MessageGet(message, key, LangOrBuild(message, lang))]
  /\ UNCHANGED <<message, registryVars, policyVars, bookVars, calls>>

\* message.errorMessage(errorSlug, errorOpt, lang)
MessageErrorMessageCall(errorSlug, errorOpt, lang) ==
  /\ msg_ret' = [NoMsgRet EXCEPT
                   !.op = "errorMessage", !.args = <<errorSlug, errorOpt, lang>>,
                   !.value = MessageErrorMessage(message, errorSlug.v, errorOpt,
                                                 LangOrBuild(message, lang))]
  /\ UNCHANGED <<message, registryVars, policyVars, bookVars, calls>>

\* message.error(errorStr, errorOpts, lang)
MessageErrorCall(errorStr, errorOpts, lang) ==
  /\ msg_ret' = [NoMsgRet EXCEPT
                   !.op = "error", !.args = <<errorStr, errorOpts, lang>>,
                   !.value = MessageError(message, errorStr, errorOpts,
                                          LangOrBuild(message, lang))]
  /\ UNCHANGED <<message, registryVars, policyVars, bookVars, calls>>

K_user_not_found == <<"u", "s", "e", "r", "-", "n", "o", "t", "-", "f", "o", "u", "n", "d">>
K_greet == <<"g", "r", "e", "e", "t">>
T_not_found == <<"{", "{", "u", "s", "e", "r", "n", "a", "m", "e", "}", "}", " ", "n", "o", "t", " ", "f", "o", "u", "n", "d", "!">>
T_greet == <<"{", "{", "a", "}", "}", " ", "a", "n", "d", " ", "{", "{", "b", "}", "}", ",", " ", "{", "{", "a", "}", "}">>

\* What set() is given: a template with one placeholder, under a key to
\* normalize, one with two placeholders of which one occurs twice, and a
\* value that is no string.
MessageSets ==
  { <<Str(<<" ", "U", "s", "e", "r", "-", "N", "o", "t", "-", "F", "o", "u", "n", "d", " ">>), Str(T_not_found)>>,
    <<Str(K_greet), Str(T_greet)>>,
    <<Str(K_greet), Num(7)>> }

L_en == <<"e", "n">>
L_fr == <<"f", "r">>

\* Catalogs of other languages, for use().
MessageUses ==
  { [t |-> "MessageBuilder",
     mb |-> MessageAfter(MessageConstructor(Str(L_en)),
                         << <<K_user_not_found, T_not_found>> >>)],
    [t |-> "MessageBuilder",
     mb |-> MessageAfter(MessageConstructor(Str(L_fr)),
                         << <<K_user_not_found, <<"{", "{", "u", "s", "e", "r", "n", "a", "m", "e", "}", "}", " ", "i", "n", "t", "r", "o", "u", "v", "a", "b", "l", "e">>>> >>)] }

MessageKeys == {Str(K_user_not_found), Str(<<"U", "s", "e", "r", "-", "N", "o", "t", "-", "F", "o", "u", "n", "d", "!">>), Str(K_greet)}
MessageSlugs == {Str(K_user_not_found), Str(K_greet)}
L_de == <<"d", "e">>
MessageLangs == {UNDEF, Str(L_en), Str(L_fr), Str(L_de)}

\* The params of one message: {name: value, ...}
MessageOpts ==
  { UNDEF,
    Dict(<< <<<<"u", "s", "e", "r", "n", "a", "m", "e">>, Str(<<"b", "o", "b">>)>> >>),
    Dict(<< <<<<"a">>, Str(<<"1">>)>>, <<<<"b">>, Str(<<"2">>)>> >>),
    Dict(<< <<<<"b">>, Str(<<"2">>)>>, <<<<"c">>, Str(<<"3">>)>> >>),
    Dict(<< <<<<"u", "s", "e", "r", "n", "a", "m", "e">>, Str(<<"{", "{", "r", "o", "l", "e", "}", "}">>)>>, <<<<"r", "o", "l", "e">>, Str(<<"a", "d", "m", "i", "n">>)>> >>) }

MessageErrorStrs ==
  { Str(<<"a", "u", "t", "h", ":", "u", "s", "e", "r", "-", "n", "o", "t", "-", "f", "o", "u", "n", "d">>),
    Str(<<"A", "u", "t", "h", ":", "g", "r", "e", "e", "t", "|", "u", "s", "e", "r", "-", "n", "o", "t", "-", "f", "o", "u", "n", "d">>),
    Str(<<"s", "y", "s", ":", "d", "b", ":", "d", "o", "w", "n", "|", "g", "r", "e", "e", "t">>),
    UNDEF }

MessageOptLists ==
  { Arr(<<>>),
    Arr(<<Dict(<< <<<<"u", "s", "e", "r", "n", "a", "m", "e">>, Str(<<"b", "o", "b">>)>> >>)>>),
    Arr(<<Dict(<< <<<<"a">>, Str(<<"1">>)>>, <<<<"b">>, Str(<<"2">>)>> >>),
          Dict(<< <<<<"u", "s", "e", "r", "n", "a", "m", "e">>, Str(<<"b", "o", "b">>)>> >>)>>) }

InitMessage ==
  /\ registry_logic = EmptyMap
  /\ writes = <<>>
  /\ reg_ret = NoRet
  /\ policy = NewPolicy(TRUE, FALSE)
  /\ pol_ret = NoPolRet
  /\ message \in {MessageConstructor(l) : l \in {UNDEF, Str(<<"I", "D", "-", "i", "d">>)}}
  /\ msg_ret = NoMsgRet
  /\ cache_book = NULL
  /\ book_log = <<>>
  /\ builds = 0
  /\ calls = [c \in Slots |-> IdleCall]

NextMessage ==
  \/ \E kv \in MessageSets : MessageSet(kv[1], kv[2])
  \/ \E input \in MessageUses : MessageUse(input)
  \/ \E key \in MessageKeys, lang \in MessageLangs : MessageGetCall(key, lang)
  \/ \E errorSlug \in MessageSlugs, errorOpt \in MessageOpts, lang \in {UNDEF, Str(L_de)} :
       MessageErrorMessageCall(errorSlug, errorOpt, lang)
  \/ \E errorStr \in MessageErrorStrs, errorOpts \in MessageOptLists, lang \in {UNDEF, Str(L_fr)} :
       MessageErrorCall(errorStr, errorOpts, lang)

SpecMessage == InitMessage /\ [][NextMessage]_vars

(***************************************************************************)
(* Dispatching against a configured instance                               *)
(***************************************************************************)
\* Arguments of a direct SystemAction call, which may name its context.
SystemArgs ==
  { [a EXCEPT !.context_manager = cm] : a \in AllArgs, cm \in ContextManagers }

\* A configured instance: the serving registry, a policy and a catalog.
Configured(policies, catalogs) ==
  /\ registry_logic = ServingRegistry.map
  /\ writes = ServingRegistry.log
  /\ reg_ret = NoRet
  /\ policy \in policies
  /\ pol_ret = NoPolRet
  /\ message \in catalogs
  /\ msg_ret = NoMsgRet
  /\ cache_book = NULL
  /\ book_log = <<>>
  /\ builds = 0
  /\ calls = [c \in Slots |-> IdleCall]

Init == Configured(PolicyConfigs, MessageConfigs)

Next ==
  \/ \E args \in SystemArgs : SystemAction(1, args)
  \/ \E args \in AllArgs : ServerAction(1, args)
  \/ \E args \in AllArgs : APIAction(1, args)
  \/ \E out \in MiddlewareOutcomes : MiddlewareSettles(1, out)
  \/ \E out \in Outcomes : ControllerSettles(1, out)

Spec == Init /\ [][Next]_vars

(***************************************************************************)
(* ResponseBuilder on its own                                              *)
(***************************************************************************)
\* this.ResponseBuilder(dataRes, system, lang)
ResponseBuilderCall(dataRes, lang) ==
  /\ msg_ret' = [NoMsgRet EXCEPT !.op = "ResponseBuilder",
                                 !.args = <<dataRes, lang>>,
                                 !.value = ResponseBuilder(message, dataRes, lang)]
  /\ UNCHANGED <<message, registryVars, policyVars, bookVars, calls>>

\* What ResponseBuilder may be handed: what RawResults holds, and values
\* that are no objects, fields that are present and falsy, and an error next
\* to data.
ResponseInputs ==
  RawResults \cup
  { NULL, Num(0), Num(5), Bool(TRUE), Obj(<<>>),
    Arr(<<Obj(<< <<"data", Num(1)>> >>)>>),
    Obj(<< <<"data", Num(0)>> >>),
    Obj(<< <<"data", Str(<<>>)>> >>),
    Obj(<< <<"data", Bool(FALSE)>> >>),
    Obj(<< <<"data", NULL>> >>),
    Obj(<< <<"data", Arr(<<>>)>> >>),
    Obj(<< <<"data", Num(3)>>, <<"status", Num(0)>> >>),
    Obj(<< <<"error", NULL>>, <<"data", Obj(<<>>)>> >>),
    Obj(<< <<"error", Str(<<>>)>>, <<"data", Obj(<<>>)>> >>),
    Obj(<< <<"error", Str(<<"a", "u", "t", "h", ":", "d", "e", "n", "i", "e", "d">>)>>, <<"data", Obj(<<>>)>> >>),
    Obj(<< <<"error", Str(<<"a", "u", "t", "h", ":", "d", "e", "n", "i", "e", "d">>)>>, <<"data", Obj(<<>>)>>, <<"status", Num(403)>> >>) }

InitResponse == Configured({NewPolicy(TRUE, FALSE)}, MessageConfigs)

NextResponse ==
  \E dataRes \in ResponseInputs, lang \in {L_en, L_id, L_de} :
    ResponseBuilderCall(dataRes, lang)

SpecResponse == InitResponse /\ [][NextResponse]_vars

(***************************************************************************)
(* Building the manifest of an instance in use                             *)
(***************************************************************************)
BookSets == { <<Str(KeyA2), Fn("h1"), Fn("m1")>> }
BookUses == { PlainObject(<< <<KeyB, Fn("h2")>> >>) }
\* noaction() calls: "b" denied to the API, "c" to both protocols.
BookDenies ==
  { <<Str(KeyB), <<API_ACTION>> >>,
    <<Str(KeyC), <<SERVER_ACTION, API_ACTION>> >> }
BookArgs ==
  { Args(System(Headers(UNDEF, UNDEF, Str(V_1_4_5)), UNDEF), UNDEF, UNDEF, Str(KeyA2)) }
BookOutcomes == {Returned(Obj(<< <<"data", Obj(<<>>)>> >>))}

InitBook == Constructed

NextBook ==
  \/ \E w \in BookSets : RegistrySet(w[1], w[2], w[3])
  \/ \E input \in BookUses : RegistryUse(input)
  \/ \E d \in BookDenies : PolicyNoaction(d[1], d[2])
  \/ \E ivKey \in IVs : BookRegistry(ivKey)
  \/ \E args \in BookArgs : APIAction(1, args)
  \/ \E out \in BookOutcomes : MiddlewareSettles(1, out)
  \/ \E out \in BookOutcomes : ControllerSettles(1, out)

SpecBook == InitBook /\ [][NextBook]_vars

(***************************************************************************)
(* Two callers probing one instance                                        *)
(***************************************************************************)
ProbeArgs ==
  { Args(System(h, l), UNDEF, UNDEF, ty) :
      h \in {Obj(<<>>), Headers(UNDEF, Str(AcceptId), Str(V_1_4_5)),
             Headers(UNDEF, UNDEF, Str(V_1_4_5))},
      l \in {UNDEF, Str(L_idID)},
      ty \in {Str(KeyA), Str(KeyB), Str(KeyC)} }
ProbeOutcomes == {Thrown, Returned(UNDEF), Returned(Obj(<< <<"data", Obj(<<>>)>> >>))}

InitProbe ==
  Configured({q \in PolicyConfigs : q.noaction_api # <<>> /\ ~q.skip_middleware_context},
             {EnIdBuilder})

NextProbe ==
  \/ \E c \in Slots, args \in ProbeArgs : ServerAction(c, args)
  \/ \E c \in Slots, args \in ProbeArgs : APIAction(c, args)
  \/ \E c \in Slots, out \in ProbeOutcomes : MiddlewareSettles(c, out)
  \/ \E c \in Slots, out \in ProbeOutcomes : ControllerSettles(c, out)

SpecProbe == InitProbe /\ [][NextProbe]_vars

(***************************************************************************)
(* Claims about dispatch                                                   *)
(***************************************************************************)
\* A response envelope, as against the undefined of a call not yet resolved.
IsEnvelope(r) ==
  {"header", "set_cookie", "rm_cookie", "status", "redirect", "error", "response"}
    \subseteq DOMAIN r

\* The call resolved to the error envelope of code with status.
FailedWith(call, code, status) ==
  /\ call.pc = "done"
  /\ IsEnvelope(call.ret)
  /\ call.ret.error = Str(code)
  /\ call.ret.status = status
  /\ call.ret.response.status = status

\* The key of the call has no entry in the registry.
Unregistered(call) == WritesFor(OrElse(call.args.type, Str(<<>>))) = {}

\* The key of the call is on the deny-list of the entry point called.
DenyListed(call) ==
  \/ /\ call.entry = "APIAction"
     /\ Includes(policy.noaction_api, call.args.type.v)
  \/ /\ call.entry = "ServerAction"
     /\ Includes(policy.noaction_server, call.args.type.v)

\* The protocol context SystemAction runs the call under, if it runs it.
ContextOf(call) ==
  IF call.entry = "APIAction" THEN API_ACTION
  ELSE IF call.entry = "ServerAction" THEN SERVER_ACTION
  ELSE OrElse(call.args.context_manager, Str(SYSTEM_ACTION)).v

ClientOf(call) == Prop(HeadersOf(call.args.system), "x-seishiro-client")

\* Segment i of a dotted version, as a number: 0 when absent or not numeric.
Segment(version, i) ==
  LET parts == Split(version, ".") IN
  IF i <= Len(parts) /\ IsDigits(parts[i]) /\ parts[i] # <<>>
  THEN DigitsValue(parts[i]) ELSE 0

Segments(version) == Len(Split(version, "."))

\* Version a is below version b: at the first segment where they differ, a
\* has the smaller number.
Below(a, b) ==
  \E i \in 1..Max(Segments(a), Segments(b)) :
    /\ Segment(a, i) < Segment(b, i)
    /\ \A j \in 1..(i - 1) : Segment(a, j) = Segment(b, j)

\* The version gate of the API context closes on the call: no client version,
\* or one below version_min under forced update.
GateClosed(call) ==
  /\ ContextOf(call) = API_ACTION
  /\ \/ ~Truthy(ClientOf(call))
     \/ /\ Below(ClientOf(call).v, policy.version_min)
        /\ policy.version_forceupdate

\* C2 as stated: a key with no registry entry always resolves to
\* system:no-registry with status 404, whatever the headers, and no handler or
\* middleware is invoked.
C2_UnregisteredIs404 ==
  \A c \in Slots :
    (calls[c].pc # "idle" /\ Unregistered(calls[c])) =>
      /\ FailedWith(calls[c], ERR_NO_REGISTRY, 404)
      /\ calls[c].invoked = <<>>

\* C2 amended: a key with no registry entry never reaches a handler or a
\* middleware and resolves at once; to system:no-registry with status 404 when
\* the key is deny-listed for the entry point or the version gate of the API
\* context lets the request through, and to the gate's own error
\* (client-version-required 400, need-upgrade-client 426) when it does not.
C2_UnregisteredNeverRuns ==
  \A c \in Slots :
    (calls[c].pc # "idle" /\ Unregistered(calls[c])) =>
      /\ calls[c].pc = "done"
      /\ calls[c].invoked = <<>>
      /\ IF DenyListed(calls[c]) \/ ~GateClosed(calls[c])
         THEN FailedWith(calls[c], ERR_NO_REGISTRY, 404)
         ELSE IF ~Truthy(ClientOf(calls[c]))
         THEN FailedWith(calls[c], ERR_CLIENT_VERSION, 400)
         ELSE FailedWith(calls[c], ERR_NEED_UPGRADE, 426)

\* An unregistered key went through the API gate with an outdated client that
\* is not forced to upgrade, and was answered no-registry.
C2_Witness ==
  \E c \in Slots :
    /\ calls[c].pc = "done"
    /\ calls[c].entry = "APIAction"
    /\ Unregistered(calls[c])
    /\ Truthy(ClientOf(calls[c]))
    /\ Below(ClientOf(calls[c]).v, policy.version_min)
    /\ "lookup" \in Range(calls[c].stages)
    /\ FailedWith(calls[c], ERR_NO_REGISTRY, 404)

\* C3: a call whose middleware or handler threw or rejected resolves to
\* system:internal-server-error with status 500, and every resolved call
\* resolved to an envelope: no entry point fails to its caller.
C3_ThrowIsInternalError ==
  \A c \in Slots :
    /\ calls[c].pc = "done" => IsEnvelope(calls[c].ret)
    /\ (\E i \in DOMAIN calls[c].invoked : calls[c].invoked[i].out.threw) =>
         /\ FailedWith(calls[c], ERR_INTERNAL, 500)
         /\ "normalize" \notin Range(calls[c].stages)

\* The middleware passed and the controller then threw.
C3_Witness ==
  \E c \in Slots :
    /\ Len(calls[c].invoked) = 2
    /\ ~calls[c].invoked[1].out.threw
    /\ calls[c].invoked[2].out.threw
    /\ FailedWith(calls[c], ERR_INTERNAL, 500)

\* C4: under the API context a request without client version (header absent
\* or empty) resolves at once to system:client-version-required with status
\* 400; the registry is not looked up and nothing is invoked, registered key or
\* not.
C4_ClientVersionRequired ==
  \A c \in Slots :
    (/\ "system" \in Range(calls[c].stages)
     /\ ContextOf(calls[c]) = API_ACTION
     /\ ~Truthy(ClientOf(calls[c]))) =>
      /\ FailedWith(calls[c], ERR_CLIENT_VERSION, 400)
      /\ "lookup" \notin Range(calls[c].stages)
      /\ calls[c].handler = UNDEF
      /\ calls[c].invoked = <<>>

\* A registered key, sent to SystemAction under the API context with an empty
\* client-version header.
C4_Witness ==
  \E c \in Slots :
    /\ calls[c].entry = "SystemAction"
    /\ calls[c].context_manager = API_ACTION
    /\ ~Unregistered(calls[c])
    /\ ClientOf(calls[c]) = Str(<<>>)
    /\ FailedWith(calls[c], ERR_CLIENT_VERSION, 400)

\* The need-upgrade answer of the gate: 426 and [{min, now}] as parameters.
UpgradeAnswer(call) ==
  /\ FailedWith(call, ERR_NEED_UPGRADE, 426)
  /\ call.ret.response.params =
       Arr(<< Dict(<< <<<<"m", "i", "n">>, Str(policy.version_min)>>,
                      <<<<"n", "o", "w">>, Str(policy.version_now)>> >>) >>)
  /\ "lookup" \notin Range(call.stages)
  /\ call.invoked = <<>>

\* C5: SystemAction answers system:need-upgrade-client (426, [{min, now}])
\* exactly when the context is api-action, a client version is present and
\* below version_min, and forced update is on; in every other case where a
\* client version is present or the context is not the API's, the call goes on
\* to the registry lookup.
C5_NeedUpgradeExactly ==
  \A c \in Slots :
    "system" \in Range(calls[c].stages) =>
      LET call == calls[c]
          client == ClientOf(call)
          api == ContextOf(call) = API_ACTION
          below == Truthy(client) /\ Below(client.v, policy.version_min)
      IN /\ (api /\ below /\ policy.version_forceupdate) => UpgradeAnswer(call)
         /\ ~(api /\ below /\ policy.version_forceupdate) =>
              ~(call.pc = "done" /\ call.ret.error = Str(ERR_NEED_UPGRADE))
         /\ (api /\ below /\ ~policy.version_forceupdate) =>
              "lookup" \in Range(call.stages)
         /\ ~api => "lookup" \in Range(call.stages)

\* An API client below version_min was refused under forced update.
C5_Witness ==
  \E c \in Slots :
    /\ calls[c].entry = "APIAction"
    /\ policy.version_forceupdate
    /\ Truthy(ClientOf(calls[c]))
    /\ Below(ClientOf(calls[c]).v, policy.version_min)
    /\ UpgradeAnswer(calls[c])

\* C1: a key on the deny-list of an entry point and a key that is not
\* registered, dispatched through that entry point with the same request
\* context, resolve to the same envelope.
C1_DeniedLikeUnregistered ==
  \A c, d \in Slots :
    (/\ calls[c].pc = "done"
     /\ calls[d].pc = "done"
     /\ calls[c].entry = calls[d].entry
     /\ calls[c].entry \in {"ServerAction", "APIAction"}
     /\ calls[c].args.system = calls[d].args.system
     /\ calls[c].args.middleware = calls[d].args.middleware
     /\ calls[c].args.data = calls[d].args.data
     /\ DenyListed(calls[c])
     /\ Unregistered(calls[d])
     /\ ~DenyListed(calls[d])) =>
      calls[c].ret = calls[d].ret

(***************************************************************************)
(* Claims about the manifest                                               *)
(***************************************************************************)
\* C6: every BookRegistry() call of an instance returns the manifest of the
\* first call, iv and data alike, whatever set, use, noaction and dispatches
\* came between; the manifest is built at most once.
C6_ManifestCached ==
  /\ builds <= 1
  /\ \A i \in DOMAIN book_log : book_log[i].ret = book_log[1].ret
  /\ book_log # <<>> => (builds = 1 /\ cache_book = book_log[1].ret)

\* Two calls, with a registry write, an API denial and a dispatch between.
C6_Witness ==
  /\ Len(book_log) = 2
  /\ book_log[1].writes < book_log[2].writes
  /\ book_log[1].denied_api < book_log[2].denied_api
  /\ calls[1].pc = "done"
  /\ book_log[2].ret = book_log[1].ret

\* The keys the registry held after its first n writes.
KeysAfter(n) == {formatKey(writes[j].key) : j \in 1..n}
\* The keys on the API deny-list after its first m entries.
DeniedAfter(m) == {policy.noaction_api[j] : j \in 1..m}

\* C7: the plaintext of the manifest lists exactly the keys registered when it
\* was built that are not on the API deny-list, with the policy's version_now,
\* version_min and force_update.
C7_ListkeyIsRegisteredNotDenied ==
  book_log # <<>> =>
    LET built == book_log[1]
        plain == PlainOf(built.ret)
    IN /\ Range(plain.listkey) = KeysAfter(built.writes) \ DeniedAfter(built.denied_api)
       /\ plain.version_now = policy.version_now
       /\ plain.version_min = policy.version_min
       /\ plain.version_forceupdate = policy.version_forceupdate

(***************************************************************************)
(* Claims about the policy                                                 *)
(***************************************************************************)
\* The protocols noaction() accepts.
KnownProtocol(x) == x = API_ACTION \/ x = SERVER_ACTION

\* list with key appended once for each occurrence of protocol in action.
DeniedMore(list, key, action, protocol) ==
  list \o [i \in 1..Len(SelectSeq(action, LAMBDA x : x = protocol)) |-> key]

\* C11 as stated: noaction(k, protocols) throws whenever protocols holds a
\* value other than 'api-action' and 'server-action' or k is not a string, and
\* then changes neither deny-list; otherwise it appends k to the deny-lists
\* named and leaves the other one unchanged.
C11_NoactionValidates ==
  pol_ret.op = "noaction" =>
    LET bad == \/ \E i \in DOMAIN pol_ret.action : ~KnownProtocol(pol_ret.action[i])
               \/ ~IsString(pol_ret.type)
        old == pol_ret.before
    IN /\ pol_ret.threw <=> bad
       /\ bad => /\ policy.noaction_api = old.noaction_api
                 /\ policy.noaction_server = old.noaction_server
       /\ ~bad =>
            /\ policy.noaction_api =
                 DeniedMore(old.noaction_api, pol_ret.type.v, pol_ret.action, API_ACTION)
            /\ policy.noaction_server =
                 DeniedMore(old.noaction_server, pol_ret.type.v, pol_ret.action,
                            SERVER_ACTION)

\* C11 amended: a key left out (undefined) reads as the empty string and is no
\* error; noaction throws exactly when protocols holds an unknown value or k
\* is given and is not a string, and then changes neither deny-list, valid
\* protocols before the unknown one included; otherwise k is appended to the
\* deny-lists named, once per naming, and the other list is unchanged.
C11_NoactionValidatesGivenKey ==
  pol_ret.op = "noaction" =>
    LET key == IF pol_ret.type = UNDEF THEN Str(<<>>) ELSE pol_ret.type
        bad == \/ \E i \in DOMAIN pol_ret.action : ~KnownProtocol(pol_ret.action[i])
               \/ ~IsString(key)
        old == pol_ret.before
    IN /\ pol_ret.threw <=> bad
       /\ bad => policy = old
       /\ ~bad =>
            /\ policy.noaction_api =
                 DeniedMore(old.noaction_api, key.v, pol_ret.action, API_ACTION)
            /\ policy.noaction_server =
                 DeniedMore(old.noaction_server, key.v, pol_ret.action, SERVER_ACTION)
            /\ [policy EXCEPT !.noaction_api = <<>>, !.noaction_server = <<>>] =
                 [old EXCEPT !.noaction_api = <<>>, !.noaction_server = <<>>]

\* A call naming a valid protocol and then an unknown one threw and left the
\* list of the valid one as it was.
C11_Witness ==
  /\ pol_ret.op = "noaction"
  /\ pol_ret.action = <<API_ACTION, <<"g", "q", "l">> >>
  /\ IsString(pol_ret.type)
  /\ pol_ret.threw
  /\ policy = pol_ret.before

\* C12: version_info gives info_upgrade = force_update whatever the versions,
\* is_version_min = client >= version_min and is_version_now = client >=
\* version_now, in the order of the first differing segment with a missing or
\* non-numeric segment read as 0.
C12_VersionInfoFlags ==
  pol_ret.op = "version_info" =>
    /\ pol_ret.value.info_upgrade = policy.version_forceupdate
    /\ pol_ret.value.is_version_min = ~Below(pol_ret.args[1], policy.version_min)
    /\ pol_ret.value.is_version_now = ~Below(pol_ret.args[1], policy.version_now)

\* Client '1.4' meets the minimum '1.4.0' and is not the current '1.4.5'.
C12_Witness ==
  /\ pol_ret.op = "version_info"
  /\ pol_ret.args[1] = V_1_4
  /\ policy.version_min = V_1_4_0
  /\ policy.version_now = V_1_4_5
  /\ pol_ret.value.is_version_min
  /\ ~pol_ret.value.is_version_now

\* C13: compare is transitive over tuples of any lengths: a >= b and b >= c
\* give a >= c.
C13_CompareTransitive ==
  (pol_ret.op = "compare" /\ pol_ret.value.ab >= 0 /\ pol_ret.value.bc >= 0)
    => pol_ret.value.ac >= 0

\* Three tuples of three lengths, in strictly descending order.
C13_Witness ==
  /\ pol_ret.op = "compare"
  /\ Len(pol_ret.args[1]) # Len(pol_ret.args[2])
  /\ Len(pol_ret.args[2]) # Len(pol_ret.args[3])
  /\ Len(pol_ret.args[1]) # Len(pol_ret.args[3])
  /\ \E i \in DOMAIN pol_ret.args[2] : pol_ret.args[2][i] = NAN
  /\ pol_ret.value = [ab |-> 1, bc |-> 1, ac |-> 1]

\* The version with its pre-release suffix cut off: what precedes the first '-'.
Strip(version) == Split(version, "-")[1]

\* C14: a pre-release suffix does not count: as client version, version_min or
\* version_now, 'X.Y.Z-suffix' gives the flags 'X.Y.Z' gives.
C14_SuffixStripped ==
  pol_ret.op = "version_info" =>
    /\ pol_ret.value.is_version_min =
         ~Below(Strip(pol_ret.args[1]), Strip(policy.version_min))
    /\ pol_ret.value.is_version_now =
         ~Below(Strip(pol_ret.args[1]), Strip(policy.version_now))

(***************************************************************************)
(* Claims about the message catalog                                        *)
(***************************************************************************)
\* The languages of the catalog, in the order they were inserted.
LanguagesOf(mb) == [i \in DOMAIN mb.message_logic |-> mb.message_logic[i][1]]

\* The template the catalog holds under the normalized key keyStr for the
\* language, the empty string when it holds none.
TemplateAt(mb, language, keyStr) ==
  LET i == CHOOSE j \in DOMAIN mb.message_logic : mb.message_logic[j][1] = language
      messages == mb.message_logic[i][2]
  IN IF keyStr \in DOMAIN messages THEN messages[keyStr] ELSE <<>>

\* The language a call reads in when the caller names none: the builder's own.
AskedLang(lang) == IF lang = UNDEF THEN message.message_build_lang ELSE lang.v

\* C15: get(key, lang) reads the template of the normalized key in lang when
\* the catalog has lang, else in the default language when the catalog has it,
\* else in the first language inserted; on a catalog without any language it
\* returns '[!NoneVariable <normalized key>]'.
C15_GetFallsBack ==
  msg_ret.op = "get" =>
    LET keyStr == formatKey(msg_ret.args[1])
        lang == AskedLang(msg_ret.args[2])
        languages == LanguagesOf(message)
    IN IF languages = <<>>
       THEN msg_ret.value = <<"[", "!", "N", "o", "n", "e", "V", "a", "r", "i", "a", "b", "l", "e", " ">> \o keyStr \o <<"]">>
       ELSE IF lang \in Range(languages)
       THEN msg_ret.value = TemplateAt(message, lang, keyStr)
       ELSE IF DefaultLanguage \in Range(languages)
       THEN msg_ret.value = TemplateAt(message, DefaultLanguage, keyStr)
       ELSE msg_ret.value = TemplateAt(message, languages[1], keyStr)

\* get() asked for a language the catalog lacks reads the default language,
\* which is not the first inserted.
C15_Witness ==
  /\ msg_ret.op = "get"
  /\ msg_ret.args[2] = Str(L_de)
  /\ Len(message.message_logic) = 2
  /\ LanguagesOf(message)[2] = DefaultLanguage
  /\ msg_ret.value = T_not_found

\* The text with every '{{name}}' of a name of opt replaced by the value of
\* the name, in one pass from left to right; all else is kept.
RECURSIVE Substitute(_, _)
Substitute(text, opt) ==
  IF text = <<>> THEN <<>>
  ELSE LET hits == {i \in DOMAIN opt :
                      IsPrefix(<<"{", "{">> \o opt[i][1] \o <<"}", "}">>, text)}
       IN IF hits = {} THEN <<Head(text)>> \o Substitute(Tail(text), opt)
          ELSE LET i == CHOOSE j \in hits : TRUE
                   placeholder == Len(opt[i][1]) + 4
               IN opt[i][2].v \o
                  Substitute(SubSeq(text, placeholder + 1, Len(text)), opt)

\* C16: errorMessage(key, params, lang) is the template get(key, lang)
\* resolves with every '{{name}}' of a name of params replaced by
\* params[name]; placeholders of other names and all other text are kept.
C16_ErrorMessageSubstitutes ==
  msg_ret.op = "errorMessage" =>
    msg_ret.value =
      Substitute(MessageGet(message, msg_ret.args[1], AskedLang(msg_ret.args[3])),
                 DictEntries(msg_ret.args[2]))

\* The position of the first ':' of the text, 0 when it has none.
FirstColon(text) ==
  IF \E i \in DOMAIN text : text[i] = ":"
  THEN CHOOSE i \in DOMAIN text :
         text[i] = ":" /\ \A j \in 1..(i - 1) : text[j] # ":"
  ELSE 0

\* C17: error(errorString, paramsList, lang) cuts errorString at its first ':'
\* into the protocol and the rest, returns as context the pieces of the rest
\* between '|', and as message the interpolation of the i-th piece with the
\* i-th entry of paramsList, in order, joined by ', '.
C17_ErrorSplitsAndJoins ==
  msg_ret.op = "error" =>
    LET errorString == StringOrEmpty(msg_ret.args[1])
        colon == FirstColon(errorString)
        protocol == IF colon = 0 THEN errorString
                    ELSE SubSeq(errorString, 1, colon - 1)
        rest == IF colon = 0 THEN <<>>
                ELSE SubSeq(errorString, colon + 1, Len(errorString))
        keys == Split(rest, "|")
        lang == AskedLang(msg_ret.args[3])
    IN /\ msg_ret.value.protocol = formatKey(Str(protocol))
       /\ msg_ret.value.context = keys
       /\ msg_ret.value.message =
            Join([i \in DOMAIN keys |->
                    MessageErrorMessage(message, keys[i],
                                        ArrGet(msg_ret.args[2], i - 1), lang)],
                 <<",", " ">>)

\* 'auth:user-not-found' with [{username: 'bob'}] on a catalog holding
\* '{{username}} not found!'.
C17_Witness ==
  /\ msg_ret.op = "error"
  /\ msg_ret.args[1] = Str(<<"a", "u", "t", "h", ":", "u", "s", "e", "r", "-", "n", "o", "t", "-", "f", "o", "u", "n", "d">>)
  /\ msg_ret.args[2] = Arr(<<Dict(<< <<<<"u", "s", "e", "r", "n", "a", "m", "e">>, Str(<<"b", "o", "b">>)>> >>)>>)
  /\ msg_ret.value.protocol = <<"a", "u", "t", "h">>
  /\ msg_ret.value.context = <<<<"u", "s", "e", "r", "-", "n", "o", "t", "-", "f", "o", "u", "n", "d">>>>
  /\ msg_ret.value.message = <<"b", "o", "b", " ", "n", "o", "t", " ", "f", "o", "u", "n", "d", "!">>

\* A rest that holds a ':' of its own and two keys.
C17_WitnessTwoKeys ==
  /\ msg_ret.op = "error"
  /\ msg_ret.value.context = <<<<"d", "b", ":", "d", "o", "w", "n">>, <<"g", "r", "e", "e", "t">>>>
  /\ Len(msg_ret.args[2].v) = 2

(***************************************************************************)
(* Claims about the response envelope                                      *)
(***************************************************************************)
\* The raw result is an object that is no array and has the field.
HasField(raw, name) ==
  raw.t = "object" /\ \E i \in DOMAIN raw.e : raw.e[i][1] = name

\* The classification by the fields a raw result carries: an error when it is
\* not an object, is an array, carries an error field or lacks a data field.
ErrorByFields(raw) ==
  \/ raw.t # "object"
  \/ HasField(raw, "error")
  \/ ~HasField(raw, "data")

\* C18: ResponseBuilder makes an error envelope exactly of the raw results
\* that are not an object, are an array, carry an error field or lack a data
\* field, and a success of all others; the status is the status field when
\* the result has one, else 400 for an error and 200 for a success.
C18_ClassifiesByFields ==
  msg_ret.op = "ResponseBuilder" =>
    LET raw == msg_ret.args[1] IN
    /\ (msg_ret.value.error # NULL) <=> ErrorByFields(raw)
    /\ msg_ret.value.status =
         IF HasField(raw, "status") THEN Prop(raw, "status").v
         ELSE IF ErrorByFields(raw) THEN 400 ELSE 200

IsList(x) == DOMAIN x = 1..Len(x)

\* C19: what an entry point returns is an envelope of one of two shapes:
\* error null with response {status, data}, or error a non-empty code with
\* response {status, message, protocol, context, params}; its status is
\* response.status and header, set_cookie and rm_cookie are lists.
C19_EnvelopeShapes ==
  \A c \in Slots :
    calls[c].pc = "done" =>
      LET r == calls[c].ret IN
      /\ IsEnvelope(r)
      /\ r.status = r.response.status
      /\ IsList(r.header) /\ IsList(r.set_cookie) /\ IsList(r.rm_cookie)
      /\ \/ /\ r.error = NULL
            /\ DOMAIN r.response = {"status", "data"}
         \/ /\ IsString(r.error) /\ r.error.v # <<>>
            /\ DOMAIN r.response =
                 {"status", "message", "protocol", "context", "params"}

\* A success carrying a header, a cookie to set and one to remove, and an
\* error of the handler's own, have been returned.
C19_Witness ==
  \E c \in Slots :
    /\ calls[c].pc = "done"
    /\ "normalize" \in Range(calls[c].stages)
    /\ calls[c].ret.error = NULL
    /\ calls[c].ret.status = 201
    /\ calls[c].ret.header # <<>>
    /\ calls[c].ret.set_cookie # <<>>
    /\ calls[c].ret.rm_cookie # <<>>

\* The middleware field the caller supplied, {} when it supplied none.
CallerMiddleware(call) ==
  IF call.args.middleware = UNDEF THEN Obj(<<>>) ELSE call.args.middleware

\* The call opted out of normalizing the middleware's result.
OptedOut(call) ==
  \/ policy.skip_middleware_context
  \/ Truthy(Prop(call.invoked[1].out.value, "skipBuilder"))

\* C20: for an entry that is a (middleware, handler) pair the middleware is
\* invoked first, with the caller's middleware field; the handler is invoked
\* only once the middleware has settled, and without an opt-out the middleware
\* field it receives is the envelope ResponseBuilder makes of the middleware's
\* result.
C20_MiddlewareBeforeHandler ==
  \A c \in Slots :
    LET call == calls[c] IN
    (IsArray(call.handler) /\ call.invoked # <<>>) =>
      /\ call.invoked[1].fn = ArrGet(call.handler, 0)
      /\ call.invoked[1].arg.middleware = CallerMiddleware(call)
      /\ call.pc = "middleware" <=> ~call.invoked[1].out.settled
      /\ Len(call.invoked) <= 2
      /\ Len(call.invoked) = 2 =>
           /\ call.invoked[1].out.settled
           /\ call.invoked[2].fn = ArrGet(call.handler, 1)
           /\ ~OptedOut(call) =>
                call.invoked[2].arg.middleware =
                  ResponseBuilder(message, call.invoked[1].out.value,
                                  call.activeLang)

\* The middleware got the caller's token and returned an error, and the
\* handler was invoked with the envelope of that error.
C20_Witness ==
  \E c \in Slots :
    /\ Len(calls[c].invoked) = 2
    /\ calls[c].invoked[1].arg.middleware = Obj(<< <<"token", Str(<<"t">>)>> >>)
    /\ ~OptedOut(calls[c])
    /\ IsEnvelope(calls[c].invoked[2].arg.middleware)
    /\ calls[c].invoked[2].arg.middleware.status = 401

(***************************************************************************)
(* Claims about the language and the stages of a dispatch                  *)
(***************************************************************************)
\* The language by priority: the x-seishiro-lang header, else the first code
\* of accept-language, else system.lang, else the default language.
ChosenLang(call) ==
  LET system == call.args.system
      headers == HeadersOf(system)
      xlang == Prop(headers, "x-seishiro-lang")
      accept == Prop(headers, "accept-language")
      declared == Prop(system, "lang")
  IN IF Truthy(xlang) THEN extractLanguage(xlang)
     ELSE IF Truthy(accept) THEN extractLanguage(accept)
     ELSE IF Truthy(declared) THEN declared.v
     ELSE DefaultLanguage

\* C21: the language of a dispatch is the x-seishiro-lang header if present,
\* else the first code of accept-language, else system.lang, else the default
\* language; the middleware and the handler get it as system.lang and the
\* message of an error envelope is resolved in it.
C21_LanguageByPriority ==
  \A c \in Slots :
    LET call == calls[c] IN
    /\ \A i \in DOMAIN call.invoked :
         Prop(call.invoked[i].arg.system, "lang") = Str(ChosenLang(call))
    /\ (call.pc = "done" /\ call.ret.error # NULL) =>
         call.ret.response.message =
           MessageError(message, call.ret.error, call.ret.response.params,
                        ChosenLang(call)).message

\* C21 on the calls that are not answered by a deny branch.
C21_NotDenied ==
  \A c \in Slots :
    LET call == calls[c] IN
    "system" \in Range(call.stages) =>
      /\ \A i \in DOMAIN call.invoked :
           Prop(call.invoked[i].arg.system, "lang") = Str(ChosenLang(call))
      /\ (call.pc = "done" /\ call.ret.error # NULL) =>
           call.ret.response.message =
             MessageError(message, call.ret.error, call.ret.response.params,
                          ChosenLang(call)).message

\* The place of a stage in the pipeline.
StageRank(stage) ==
  CASE stage = "deny" -> 1
    [] stage = "system" -> 2
    [] stage = "lookup" -> 3
    [] stage = "middleware" -> 4
    [] stage = "controller" -> 5
    [] stage = "normalize" -> 6

\* The forced-upgrade gate closes on the call: an API client below
\* version_min under forced update.
UpgradeGateClosed(call) ==
  /\ ContextOf(call) = API_ACTION
  /\ Truthy(ClientOf(call))
  /\ Below(ClientOf(call).v, policy.version_min)
  /\ policy.version_forceupdate

\* C22: the stages of an APIAction request run in the order deny-list check,
\* client-version check, registry lookup, middleware, handler, normalization,
\* each at most once and only after the stages before it passed: nothing is
\* invoked for a key on the API deny-list, without client version, below the
\* forced-upgrade gate or without registry entry.
C22_StagesInOrder ==
  \A c \in Slots :
    LET call == calls[c] IN
    call.entry = "APIAction" =>
      /\ call.stages # <<>> /\ call.stages[1] = "deny"
      /\ \A i, j \in DOMAIN call.stages :
           i < j => StageRank(call.stages[i]) < StageRank(call.stages[j])
      /\ DenyListed(call) => call.stages = <<"deny">>
      /\ "lookup" \in Range(call.stages) =>
           /\ "system" \in Range(call.stages)
           /\ ~DenyListed(call)
           /\ Truthy(ClientOf(call))
           /\ ~UpgradeGateClosed(call)
      /\ call.invoked # <<>> =>
           /\ "lookup" \in Range(call.stages)
           /\ ~Unregistered(call)
           /\ Len(call.invoked) =
                Cardinality({"middleware", "controller"} \cap Range(call.stages))
      /\ "controller" \in Range(call.stages) =>
           (IsArray(call.handler) <=> "middleware" \in Range(call.stages))
      /\ "normalize" \in Range(call.stages) => "controller" \in Range(call.stages)

\* An API request went through all six stages.
C22_Witness ==
  \E c \in Slots :
    /\ calls[c].entry = "APIAction"
    /\ calls[c].pc = "done"
    /\ calls[c].stages =
         <<"deny", "system", "lookup", "middleware", "controller", "normalize">>
    /\ calls[c].ret.error = NULL

\* How often the stage occurs among the stages of the call.
StageCount(call, stage) == Cardinality({i \in DOMAIN call.stages : call.stages[i] = stage})

\* C23: under skip_middleware_context, or when the middleware's result has a
\* truthy skipBuilder, the handler gets the middleware's raw result as its
\* middleware field, and in every other case the envelope made of it; the
\* handler's own result is normalized exactly once before it is returned.
C23_SkipPassesRawResult ==
  \A c \in Slots :
    LET call == calls[c]
        last == call.invoked[Len(call.invoked)]
    IN /\ Len(call.invoked) = 2 =>
            call.invoked[2].arg.middleware =
              IF \/ policy.skip_middleware_context
                 \/ Truthy(Prop(call.invoked[1].out.value, "skipBuilder"))
              THEN call.invoked[1].out.value
              ELSE ResponseBuilder(message, call.invoked[1].out.value,
                                   call.activeLang)
       /\ StageCount(call, "normalize") <= 1
       /\ (call.pc = "done" /\ "controller" \in Range(call.stages) /\ ~last.out.threw) =>
            /\ StageCount(call, "normalize") = 1
            /\ call.ret = ResponseBuilder(message, last.out.value, call.activeLang)

\* Under skip_middleware_context the handler got the error object the
\* middleware returned, as it was.
C23_Witness ==
  \E c \in Slots :
    /\ policy.skip_middleware_context
    /\ Len(calls[c].invoked) = 2
    /\ Truthy(Prop(calls[c].invoked[2].arg.middleware, "error"))
    /\ calls[c].invoked[2].arg.middleware = calls[c].invoked[1].out.value
    /\ calls[c].pc = "done"
    /\ calls[c].ret.error = NULL

\* C27: the handler of a pair is invoked whenever the middleware returned,
\* also when what it returned is an error, and never when it threw; what the
\* caller gets is the envelope of the handler's result alone.
C27_HandlerRunsAfterMiddlewareError ==
  \A c \in Slots :
    LET call == calls[c] IN
    (IsArray(call.handler) /\ call.invoked # <<>> /\ call.invoked[1].out.settled) =>
      IF call.invoked[1].out.threw
      THEN /\ Len(call.invoked) = 1
           /\ FailedWith(call, ERR_INTERNAL, 500)
      ELSE /\ Len(call.invoked) = 2
           /\ call.invoked[2].fn = ArrGet(call.handler, 1)
           /\ (call.invoked[2].out.settled /\ ~call.invoked[2].out.threw) =>
                /\ call.pc = "done"
                /\ call.ret = ResponseBuilder(message, call.invoked[2].out.value,
                                              ChosenLang(call))

\* The middleware returned {error: 'auth:denied', status: 401}, the handler
\* ran all the same and the caller got the handler's success.
C27_Witness ==
  \E c \in Slots :
    /\ Len(calls[c].invoked) = 2
    /\ Prop(calls[c].invoked[1].out.value, "error") = Str(<<"a", "u", "t", "h", ":", "d", "e", "n", "i", "e", "d">>)
    /\ Prop(calls[c].invoked[1].out.value, "status") = Num(401)
    /\ calls[c].pc = "done"
    /\ calls[c].ret.error = NULL
    /\ calls[c].ret.status = 200

(***************************************************************************)
(* Claims about the deny-lists                                             *)
(***************************************************************************)
\* The key the call asks for, as the registry normalizes it.
KeyOf(call) == formatKey(OrElse(call.args.type, Str(<<>>)))

\* The deny-list holds a key that normalizes to the registry key of the call.
DeniedUpToFormat(list, call) ==
  \E i \in DOMAIN list : formatKey(Str(list[i])) = KeyOf(call)

\* C26: a request key that normalizes to the same registry key as a key
\* denied for a protocol, dispatched through that protocol's entry point,
\* invokes nothing and resolves to system:no-registry with status 404.
C26_DenyUpToNormalization ==
  \A c \in Slots :
    LET call == calls[c] IN
    (\/ /\ call.entry = "APIAction"
        /\ DeniedUpToFormat(policy.noaction_api, call)
     \/ /\ call.entry = "ServerAction"
        /\ DeniedUpToFormat(policy.noaction_server, call)) =>
      /\ call.invoked = <<>>
      /\ FailedWith(call, ERR_NO_REGISTRY, 404)

\* C28: SystemAction called directly reads neither deny-list: a registered
\* key denied to a protocol is looked up and its middleware and handler run;
\* ServerAction is stopped by the server list only and APIAction by the API
\* list only.
C28_SystemActionIgnoresDenyLists ==
  \A c \in Slots :
    LET call == calls[c]
        key == OrElse(call.args.type, Str(<<>>)).v
        onApi == Includes(policy.noaction_api, key)
        onServer == Includes(policy.noaction_server, key)
    IN /\ call.entry = "SystemAction" =>
            /\ "deny" \notin Range(call.stages)
            /\ "system" \in Range(call.stages)
            /\ (~GateClosed(call) /\ ~Unregistered(call)) =>
                 /\ call.invoked # <<>>
                 /\ call.invoked[1].fn =
                      (IF IsArray(call.handler) THEN ArrGet(call.handler, 0)
                       ELSE call.handler)
       /\ call.entry = "ServerAction" =>
            (call.stages = <<"deny">> <=> onServer)
       /\ call.entry = "APIAction" =>
            (call.stages = <<"deny">> <=> onApi)

\* A key denied to both protocols that is registered, dispatched by
\* SystemAction: its middleware and its handler ran.
C28_Witness ==
  \E c \in Slots :
    /\ calls[c].entry = "SystemAction"
    /\ Includes(policy.noaction_api, calls[c].args.type.v)
    /\ Includes(policy.noaction_server, calls[c].args.type.v)
    /\ Len(calls[c].invoked) = 2
    /\ calls[c].pc = "done"
    /\ calls[c].ret.error = NULL

\* A key denied to the API only went through ServerAction to its handler.
C28_WitnessOtherList ==
  \E c \in Slots :
    /\ calls[c].entry = "ServerAction"
    /\ Includes(policy.noaction_api, calls[c].args.type.v)
    /\ calls[c].invoked # <<>>

(***************************************************************************)
(* Claims about the fallback of the catalog                                *)
(***************************************************************************)
SentinelHead == <<"[", "!", "N", "o", "n", "e", "V", "a", "r", "i", "a", "b", "l", "e", " ">>

Started(call) ==
  CASE call.entry = "SystemAction" ->
         SystemActionCall(registry_logic, policy, message, call.args)
    [] call.entry = "ServerAction" ->
         ServerActionCall(registry_logic, policy, message, call.args)
    [] call.entry = "APIAction" ->
         APIActionCall(registry_logic, policy, message, call.args)

PastMiddleware(call) ==
  LET s == Started(call) IN
  IF s.pc = "middleware" /\ call.invoked[1].out.settled
  THEN AfterMiddleware(policy, message, s, call.invoked[1].out)
  ELSE s

Alone(call) ==
  LET s == PastMiddleware(call)
      n == Len(s.invoked)
  IN IF s.pc = "controller" /\ Len(call.invoked) >= n /\ call.invoked[n].out.settled
     THEN AfterController(message, s, call.invoked[n].out)
     ELSE s

\* C24: with the registry and the policy left alone, each of two calls
\* running at once is, at every point of every interleaving, what it would be
\* had it run alone: the same context handed to its middleware and handler, in
\* its own language and with its own middleware field, and the same envelope.
C24_CallsIndependent ==
  \A c \in Slots :
    LET call == calls[c] IN
    call.pc # "idle" =>
      /\ call = Alone(call)
      /\ \A i \in DOMAIN call.invoked :
           /\ call.invoked[i].arg.system =
                ObjSet(call.args.system, "lang", Str(ActiveLang(call.args.system)))
           /\ call.invoked[i].arg.type = call.args.type
           /\ call.invoked[i].arg.data = call.args.data
      /\ call.invoked # <<>> => call.invoked[1].arg.middleware = CallerMiddleware(call)
      /\ call.pc = "done" =>
           call.ret.response.status = call.ret.status

\* Two calls in flight at once in two languages, one awaiting its middleware
\* and one its handler, to which its own middleware result was handed.
C24_Witness ==
  /\ calls[1].pc = "middleware"
  /\ calls[2].pc = "controller"
  /\ calls[1].activeLang # calls[2].activeLang
  /\ Len(calls[2].invoked) = 2
  /\ calls[2].invoked[1].out.value # UNDEF

(***************************************************************************)
(* Dispatches on an instance whose registry and policy are still written   *)
(***************************************************************************)
\* The registry after set("a", h1, m1) alone.
LiveRegistry ==
  BuilderAfter([map |-> EmptyMap, log |-> <<>>, threw |-> FALSE],
               << <<Str(KeyA), Fn("h1"), Fn("m1")>> >>)

\* set() calls that overwrite "a": another pair, and a bare handler.
LiveSets == { <<Str(KeyA), Fn("h2"), Fn("m2")>>, <<Str(KeyA2), Fn("h2"), UNDEF>> }
\* use() re-pairing "a" with another handler.
LiveUses == { PlainObject(<< <<KeyA, Arr(<<Fn("m1"), Fn("h2")>>)>> >>) }
LiveDenies == { <<Str(KeyA), <<API_ACTION>> >>, <<Str(KeyA), <<SERVER_ACTION>> >> }
LiveArgs == { Args(System(Headers(UNDEF, UNDEF, Str(V_1_4_5)), UNDEF), UNDEF, UNDEF, Str(KeyA)) }
LiveOutcomes == { Returned(Obj(<< <<"data", Obj(<<>>)>> >>)) }

InitLive ==
  /\ registry_logic = LiveRegistry.map
  /\ writes = LiveRegistry.log
  /\ reg_ret = NoRet
  /\ policy = NewPolicy(FALSE, FALSE)
  /\ pol_ret = NoPolRet
  /\ message = EnIdBuilder
  /\ msg_ret = NoMsgRet
  /\ cache_book = NULL
  /\ book_log = <<>>
  /\ builds = 0
  /\ calls = [c \in Slots |-> IdleCall]

NextLive ==
  \/ \E s \in LiveSets : RegistrySet(s[1], s[2], s[3])
  \/ \E input \in LiveUses : RegistryUse(input)
  \/ \E d \in LiveDenies : PolicyNoaction(d[1], d[2])
  \/ \E c \in Slots, args \in LiveArgs : ServerAction(c, args)
  \/ \E c \in Slots, args \in LiveArgs : APIAction(c, args)
  \/ \E c \in Slots, out \in LiveOutcomes : MiddlewareSettles(c, out)
  \/ \E c \in Slots, out \in LiveOutcomes : ControllerSettles(c, out)

SpecLive == InitLive /\ [][NextLive]_vars

(***************************************************************************)
(* Claims about writes made while dispatches run                           *)
(***************************************************************************)
\* The number of times the stage occurs among the stages of the call.
StageTimes(call, stage) == Cardinality({i \in DOMAIN call.stages : call.stages[i] = stage})

\* The entry the dispatch read at its lookup names what it invoked: a pair
\* its middleware and then its handler, a bare function its handler.
InvokedFromEntry(call) ==
  /\ StageTimes(call, "lookup") = 1
  /\ IF IsArray(call.handler)
     THEN /\ call.invoked[1].fn = ArrGet(call.handler, 0)
          /\ Len(call.invoked) = 2 => call.invoked[2].fn = ArrGet(call.handler, 1)
     ELSE /\ Len(call.invoked) = 1
          /\ call.invoked[1].fn = call.handler

\* C29: the middleware and the handler a dispatch runs are those of the one
\* entry it read at its lookup, whatever set() and use() store under the key
\* while its middleware or handler is pending; the entry is read when the
\* dispatch starts, from the registry as it is then, and never again.
C29_EntryReadOnce ==
  [][\A c \in Slots :
       /\ calls[c].pc = "idle" /\ StageTimes(calls'[c], "lookup") > 0
            => calls'[c].handler = RegistryGetOp(registry_logic, calls'[c].args.type)
       /\ calls[c].pc # "idle"
            => /\ calls'[c].handler = calls[c].handler
               /\ StageTimes(calls'[c], "lookup") = StageTimes(calls[c], "lookup")
       /\ calls'[c].invoked # <<>> => InvokedFromEntry(calls'[c])]_vars

\* A dispatch that read the pair (m1, h1) awaits h1 after the key was
\* overwritten with another entry while its middleware was pending.
C29_Witness ==
  \E c \in Slots :
    /\ calls[c].pc = "controller"
    /\ Len(calls[c].invoked) = 2
    /\ calls[c].invoked[2].fn = Fn("h1")
    /\ calls[c].handler # RegistryGetOp(registry_logic, calls[c].args.type)
    /\ Len(writes) > Len(LiveRegistry.log)

\* C30: the deny-lists only grow, and a dispatch through a protocol of a key
\* that is on the deny-list of the protocol when it starts stops at the
\* deny-list with the 404 of a key without registry, whenever noaction() put
\* the key there.
C30_NoactionSeenByLaterDispatch ==
  [][/\ \A i \in DOMAIN policy.noaction_api :
          i \in DOMAIN policy'.noaction_api /\ policy'.noaction_api[i] = policy.noaction_api[i]
     /\ \A i \in DOMAIN policy.noaction_server :
          i \in DOMAIN policy'.noaction_server /\ policy'.noaction_server[i] = policy.noaction_server[i]
     /\ pol_ret'.op = "noaction" /\ pol_ret' # pol_ret /\ ~pol_ret'.threw
          => \A i \in DOMAIN pol_ret'.action :
               Includes(IF pol_ret'.action[i] = API_ACTION
                        THEN PolicyApply(policy').noaction_api
                        ELSE PolicyApply(policy').noaction_server, pol_ret'.type.v)
     /\ \A c \in Slots :
          /\ calls[c].pc = "idle" /\ calls'[c].pc # "idle"
          /\ Includes(IF calls'[c].entry = "APIAction" THEN policy.noaction_api
                      ELSE policy.noaction_server, calls'[c].args.type.v)
          => /\ calls'[c].pc = "done"
             /\ calls'[c].stages = <<"deny">>
             /\ calls'[c].invoked = <<>>
             /\ calls'[c].ret.status = 404]_vars

\* A dispatch of "a" through the API ran its handler and succeeded, and a
\* dispatch of "a" through the API stopped at the deny-list.
C30_Witness ==
  \E c, d \in Slots :
    /\ calls[c].entry = "APIAction" /\ calls[d].entry = "APIAction"
    /\ calls[c].args.type = calls[d].args.type
    /\ calls[c].pc = "done" /\ Len(calls[c].invoked) = 2 /\ calls[c].ret.error = NULL
    /\ calls[d].pc = "done" /\ calls[d].stages = <<"deny">> /\ calls[d].ret.status = 404
    /\ pol_ret.op = "noaction"

====
